---- MODULE Spec2Model ----
(***************************************************************************)
(* A model of the multi-agent question-answering orchestrator:             *)
(*   - Coordinator.run, the state machine that sequences perception,       *)
(*     retrieval, planning, the HITL gates, execution and critique;        *)
(*   - the tiered memory: session memory (Tier 1), the conversation-memory *)
(*     FAISS index with its validator (Tier 2), the document index         *)
(*     (Tier 3), and the promotion of answers into Tier 2.                 *)
(*                                                                         *)
(* Confidence and similarity values are fixed-point numbers in hundredths  *)
(* (0.9 is 90); ages, TTLs and the clock are whole hours.                  *)
(***************************************************************************)
EXTENDS Integers, Sequences, FiniteSets, TLC

(***************************************************************************)
(* Text.  A text constant of the model is named by a TLA+ string; Chars    *)
(* gives its characters, on which len(), str.lower() and the substring     *)
(* test `sub in s` are computed as Python computes them.                   *)
(***************************************************************************)
Chars(t) ==
    CASE
         t = "error" -> <<"e", "r", "r", "o", "r">>
      [] t = "failed" -> <<"f", "a", "i", "l", "e", "d">>
      [] t = "not found" -> <<"n", "o", "t", " ", "f", "o", "u", "n", "d">>
      [] t = "could not" -> <<"c", "o", "u", "l", "d", " ", "n", "o", "t">>
      [] t = "unable to" -> <<"u", "n", "a", "b", "l", "e", " ", "t", "o">>
      [] t = "current" -> <<"c", "u", "r", "r", "e", "n", "t">>
      [] t = "latest" -> <<"l", "a", "t", "e", "s", "t">>
      [] t = "now" -> <<"n", "o", "w">>
      [] t = "today" -> <<"t", "o", "d", "a", "y">>
      [] t = "updated" -> <<"u", "p", "d", "a", "t", "e", "d">>
      [] t = "recent" -> <<"r", "e", "c", "e", "n", "t">>
      [] t = "new" -> <<"n", "e", "w">>
      [] t = "local documents" -> <<"l", "o", "c", "a", "l", " ", "d", "o", "c", "u", "m", "e", "n", "t", "s">>
      [] t = "rag" -> <<"r", "a", "g">>
      [] t = "documents" -> <<"d", "o", "c", "u", "m", "e", "n", "t", "s">>
      [] t = "web_search" -> <<"w", "e", "b", "_", "s", "e", "a", "r", "c", "h">>
      [] t = "web" -> <<"w", "e", "b">>
      [] t = "local" -> <<"l", "o", "c", "a", "l">>
      [] t = "unknown" -> <<"u", "n", "k", "n", "o", "w", "n">>
      [] t = "session" -> <<"s", "e", "s", "s", "i", "o", "n">>
      [] t = "memory" -> <<"m", "e", "m", "o", "r", "y">>
      [] t = "none" -> <<"n", "o", "n", "e">>
      [] t = "Reasoning/Tool" -> <<"R", "e", "a", "s", "o", "n", "i", "n", "g", "/", "T", "o", "o", "l">>
      [] t = "Web_Search" -> <<"W", "e", "b", "_", "S", "e", "a", "r", "c", "h">>
      [] t = "RAG" -> <<"R", "A", "G">>
      [] t = "cost of flat" -> <<"c", "o", "s", "t", " ", "o", "f", " ", "f", "l", "a", "t">>
      [] t = "Latest cost of flat" -> <<"L", "a", "t", "e", "s", "t", " ", "c", "o", "s", "t", " ", "o", "f", " ", "f", "l", "a", "t">>
      [] t = "known cost" -> <<"k", "n", "o", "w", "n", " ", "c", "o", "s", "t">>
      [] t = "Purple" -> <<"P", "u", "r", "p", "l", "e">>
      [] t = "The flat costs 5 cr" -> <<"T", "h", "e", " ", "f", "l", "a", "t", " ", "c", "o", "s", "t", "s", " ", "5", " ", "c", "r">>
      [] t = "The flat costs 5 cr." -> <<"T", "h", "e", " ", "f", "l", "a", "t", " ", "c", "o", "s", "t", "s", " ", "5", " ", "c", "r", ".">>
      [] t = "Error: tool timed out badly" -> <<"E", "r", "r", "o", "r", ":", " ", "t", "o", "o", "l", " ", "t", "i", "m", "e", "d", " ", "o", "u", "t", " ", "b", "a", "d", "l", "y">>
      [] t = "The price was not found anywhere" -> <<"T", "h", "e", " ", "p", "r", "i", "c", "e", " ", "w", "a", "s", " ", "n", "o", "t", " ", "f", "o", "u", "n", "d", " ", "a", "n", "y", "w", "h", "e", "r", "e">>
      [] t = "I could not find the price" -> <<"I", " ", "c", "o", "u", "l", "d", " ", "n", "o", "t", " ", "f", "i", "n", "d", " ", "t", "h", "e", " ", "p", "r", "i", "c", "e">>
      [] t = "Search FAILED for that query" -> <<"S", "e", "a", "r", "c", "h", " ", "F", "A", "I", "L", "E", "D", " ", "f", "o", "r", " ", "t", "h", "a", "t", " ", "q", "u", "e", "r", "y">>
      [] t = "Unable to get the flat price" -> <<"U", "n", "a", "b", "l", "e", " ", "t", "o", " ", "g", "e", "t", " ", "t", "h", "e", " ", "f", "l", "a", "t", " ", "p", "r", "i", "c", "e">>
      [] t = "429" -> <<"4", "2", "9">>
      [] t = "RESOURCE_EXHAUSTED" -> <<"R", "E", "S", "O", "U", "R", "C", "E", "_", "E", "X", "H", "A", "U", "S", "T", "E", "D">>
      [] t = "'MemoryAgent' object has no attribute 'save_debug_snapshot'" -> <<"'", "M", "e", "m", "o", "r", "y", "A", "g", "e", "n", "t", "'", " ", "o", "b", "j", "e", "c", "t", " ", "h", "a", "s", " ", "n", "o", " ", "a", "t", "t", "r", "i", "b", "u", "t", "e", " ", "'", "s", "a", "v", "e", "_", "d", "e", "b", "u", "g", "_", "s", "n", "a", "p", "s", "h", "o", "t", "'">>
      [] t = "" -> <<>>
      [] t = " " -> <<" ">>
      [] t = "stop" -> <<"s", "t", "o", "p">>
      [] t = "skip" -> <<"s", "k", "i", "p">>
      [] t = "Stop " -> <<"S", "t", "o", "p", " ">>
      [] t = "use the web" -> <<"u", "s", "e", " ", "t", "h", "e", " ", "w", "e", "b">>
      [] t = "429 Too Many Requests" -> <<"4", "2", "9", " ", "T", "o", "o", " ", "M", "a", "n", "y", " ", "R", "e", "q", "u", "e", "s", "t", "s">>
      [] t = "quota RESOURCE_EXHAUSTED" -> <<"q", "u", "o", "t", "a", " ", "R", "E", "S", "O", "U", "R", "C", "E", "_", "E", "X", "H", "A", "U", "S", "T", "E", "D">>
      [] t = "connection reset" -> <<"c", "o", "n", "n", "e", "c", "t", "i", "o", "n", " ", "r", "e", "s", "e", "t">>
      [] t = "code 14290" -> <<"c", "o", "d", "e", " ", "1", "4", "2", "9", "0">>
      [] t = "resource_exhausted" -> <<"r", "e", "s", "o", "u", "r", "c", "e", "_", "e", "x", "h", "a", "u", "s", "t", "e", "d">>

LowerChar(c) ==
    CASE c = "A" -> "a" [] c = "D" -> "d" [] c = "E" -> "e" [] c = "F" -> "f"
      [] c = "G" -> "g" [] c = "I" -> "i" [] c = "L" -> "l" [] c = "P" -> "p"
      [] c = "R" -> "r" [] c = "S" -> "s" [] c = "T" -> "t" [] c = "U" -> "u"
      [] c = "W" -> "w"
      [] OTHER -> c

Lower(s) == [i \in 1..Len(s) |-> LowerChar(s[i])]

\* the text as it is, where str.strip() is left out
NoStrip(s) == s

RECURSIVE LStrip(_)
LStrip(s) == IF s # <<>> /\ Head(s) = " " THEN LStrip(Tail(s)) ELSE s

RECURSIVE RStrip(_)
RStrip(s) == IF s # <<>> /\ s[Len(s)] = " " THEN RStrip(SubSeq(s, 1, Len(s) - 1)) ELSE s

\* str.strip(), for the blank the model's texts use
Strip(s) == RStrip(LStrip(s))

Contains(s, sub) ==
    \E i \in 0..(Len(s) - Len(sub)) : SubSeq(s, i + 1, i + Len(sub)) = sub

(***************************************************************************)
(* Input domains: the texts the model draws queries, answers and source    *)
(* tags from.                                                              *)
(***************************************************************************)
Queries == {"cost of flat", "Latest cost of flat", "known cost"}

Answers == {"Purple", "The flat costs 5 cr", "The flat costs 5 cr.",
            "Error: tool timed out badly", "The price was not found anywhere",
            "I could not find the price", "Search FAILED for that query",
            "Unable to get the flat price"}

Sources == {"documents", "web", "Web_Search", "RAG", "unknown", "memory",
            "session", "none", "Reasoning/Tool"}

Needles == {"error", "failed", "not found", "could not", "unable to",
            "current", "latest", "now", "today", "updated", "recent", "new",
            "local documents", "rag", "documents", "web_search", "web", "local"}

\* the substring tests and lengths of these texts, computed once
InLowerTable ==
    [sub \in Needles, t \in Queries \cup Answers \cup Sources |->
        Contains(Lower(Chars(t)), Chars(sub))]

StrLenTable == [t \in Answers |-> Len(Chars(t))]

\* `sub in t.lower()`
InLower(sub, t) == InLowerTable[sub, t]

\* len(t)
StrLen(t) == StrLenTable[t]

(***************************************************************************)
(* memory_validator.py                                                     *)
(***************************************************************************)
FRESHNESS_KEYWORDS == {"current", "latest", "now", "today", "updated", "recent", "new"}

error_indicators == {"error", "failed", "not found", "could not", "unable to"}

\* get_age_hours: the timestamps the program writes always parse
get_age_hours(timestamp, clock) == clock - timestamp

\* is_memory_valid with the TTL test left out
is_memory_valid_no_ttl(memory_entry, original_query, clock) ==
    LET confidence == memory_entry.confidence
        age_hours  == get_age_hours(memory_entry.timestamp, clock)
        source     == memory_entry.source
        query_to_check == IF original_query # "" THEN original_query
                                                  ELSE memory_entry.query
    IN  IF confidence < 90 THEN FALSE
        ELSE IF InLower("web_search", source) /\ age_hours > 24 THEN FALSE
        ELSE IF (\E keyword \in FRESHNESS_KEYWORDS : InLower(keyword, query_to_check))
                /\ age_hours > 1 THEN FALSE
        ELSE TRUE

is_memory_valid(memory_entry, original_query, clock) ==
    LET confidence == memory_entry.confidence
        age_hours  == get_age_hours(memory_entry.timestamp, clock)
        ttl        == memory_entry.ttl_hours
        source     == memory_entry.source
        query_to_check == IF original_query # "" THEN original_query
                                                  ELSE memory_entry.query
    IN  IF confidence < 90 THEN FALSE
        ELSE IF age_hours > ttl THEN FALSE
        ELSE IF InLower("web_search", source) /\ age_hours > 24 THEN FALSE
        ELSE IF (\E keyword \in FRESHNESS_KEYWORDS : InLower(keyword, query_to_check))
                /\ age_hours > 1 THEN FALSE
        ELSE TRUE

\* should_index_to_memory without the stricter threshold for web results
should_index_to_memory_no_web(confidence, source, answer, goal_achieved) ==
    IF ~goal_achieved THEN FALSE
    ELSE IF confidence < 90 THEN FALSE
    ELSE IF StrLen(answer) < 20 THEN FALSE
    ELSE IF \E indicator \in error_indicators : InLower(indicator, answer) THEN FALSE
    ELSE TRUE

should_index_to_memory(confidence, source, answer, goal_achieved) ==
    IF ~goal_achieved THEN FALSE
    ELSE IF confidence < 90 THEN FALSE
    ELSE IF StrLen(answer) < 20 THEN FALSE
    ELSE IF \E indicator \in error_indicators : InLower(indicator, answer) THEN FALSE
    ELSE IF InLower("local documents", source) \/ InLower("rag", source)
            \/ InLower("documents", source) THEN TRUE
    ELSE IF InLower("web_search", source) \/ InLower("web", source)
         THEN confidence >= 95
    ELSE TRUE

calculate_ttl_hours(source) ==
    IF InLower("web_search", source) \/ InLower("web", source) THEN 6
    ELSE IF InLower("documents", source) \/ InLower("rag", source)
            \/ InLower("local", source) THEN 168
    ELSE 24

(***************************************************************************)
(* The embedding service (external).  A text is embedded as a point on a   *)
(* line; the cosine similarity of session memory and the L2 distance of    *)
(* the FAISS index are computed from the two points.                       *)
(***************************************************************************)
Emb(t) ==
    CASE t = "cost of flat" -> 0
      [] t = "Latest cost of flat" -> 1
      [] t = "known cost" -> 3
      [] t = "The flat costs 5 cr." -> 2
      [] t = "The flat costs 5 cr" -> 2
      [] OTHER -> 9

Abs(x) == IF x < 0 THEN -x ELSE x

Max(x, y) == IF x >= y THEN x ELSE y

Min(x, y) == IF x <= y THEN x ELSE y

\* dot(e1, e2) / (|e1| |e2|), in hundredths
CosineSimilarity(t1, t2) == Max(0, 100 - 15 * Abs(Emb(t1) - Emb(t2)))

\* IndexFlatL2 distance
L2Distance(v1, v2) == (v1 - v2) * (v1 - v2)

\* Python's None; a value x that is not None is carried as <<x>>
None == <<>>

(***************************************************************************)
(* utils/session_memory.py: SessionMemoryManager                           *)
(***************************************************************************)
add_turn(conv, query, answer, confidence, source, validated) ==
    Append(conv, [turn_id    |-> Len(conv),
                  query      |-> query,
                  answer     |-> answer,
                  confidence |-> confidence,
                  source     |-> source,
                  validated  |-> validated])

\* _calculate_similarity: any failure of the embedding call yields 0.0
calculate_similarity(text1, text2, embed_ok) ==
    IF embed_ok THEN CosineSimilarity(text1, text2) ELSE 0

\* a variant that lets a later turn of equal similarity replace the best match
RECURSIVE search_similar_loop_ge(_, _, _, _, _, _, _)
search_similar_loop_ge(conv, i, query, threshold, embed_ok, best_match, best_similarity) ==
    IF i > Len(conv) THEN best_match
    ELSE
      LET turn == conv[i]
          max_similarity == Max(calculate_similarity(query, turn.query, embed_ok),
                                calculate_similarity(query, turn.answer, embed_ok))
      IN  IF turn.validated /\ turn.confidence >= 90
             /\ max_similarity >= best_similarity /\ max_similarity >= threshold
            THEN search_similar_loop_ge(conv, i + 1, query, threshold, embed_ok,
                                        <<[turn |-> turn, similarity |-> max_similarity]>>,
                                        max_similarity)
            ELSE search_similar_loop_ge(conv, i + 1, query, threshold, embed_ok,
                                        best_match, best_similarity)

RECURSIVE search_similar_loop(_, _, _, _, _, _, _)
search_similar_loop(conv, i, query, threshold, embed_ok, best_match, best_similarity) ==
    IF i > Len(conv) THEN best_match
    ELSE
      LET turn == conv[i]
          query_similarity  == calculate_similarity(query, turn.query, embed_ok)
          answer_similarity == calculate_similarity(query, turn.answer, embed_ok)
          max_similarity    == Max(query_similarity, answer_similarity)
      IN  IF ~turn.validated
            THEN search_similar_loop(conv, i + 1, query, threshold, embed_ok,
                                     best_match, best_similarity)
          ELSE IF turn.confidence < 90
            THEN search_similar_loop(conv, i + 1, query, threshold, embed_ok,
                                     best_match, best_similarity)
          ELSE IF max_similarity > best_similarity /\ max_similarity >= threshold
            THEN search_similar_loop(conv, i + 1, query, threshold, embed_ok,
                                     <<[turn |-> turn, similarity |-> max_similarity]>>,
                                     max_similarity)
          ELSE search_similar_loop(conv, i + 1, query, threshold, embed_ok,
                                   best_match, best_similarity)

search_similar(conv, query, threshold, embed_ok) ==
    search_similar_loop(conv, 1, query, threshold, embed_ok, None, 0)

(***************************************************************************)
(* retriever_agent.py: RetrieverAgent                                      *)
(***************************************************************************)
\* `if not self.session_memory` is true of a manager with no turns (__len__)
search_session_memory(conv, query, embed_ok) ==
    IF Len(conv) = 0 THEN None
    ELSE search_similar(conv, query, 85, embed_ok)

\* index.search: the positions of the k nearest vectors, nearest first
RECURSIVE NearestFirst(_, _, _, _)
NearestFirst(index, query_vec, k, taken) ==
    IF k = 0 THEN <<>>
    ELSE
      LET rest == (1..Len(index)) \ taken
          best == CHOOSE p \in rest : \A r \in rest :
                     \/ L2Distance(index[p], query_vec) < L2Distance(index[r], query_vec)
                     \/ /\ L2Distance(index[p], query_vec) = L2Distance(index[r], query_vec)
                        /\ p <= r
      IN  <<best>> \o NearestFirst(index, query_vec, k - 1, taken \cup {best})

RECURSIVE first_valid(_, _, _, _, _)
first_valid(candidates, i, meta, query, clock) ==
    IF i > Len(candidates) THEN None
    ELSE IF candidates[i] > Len(meta)
      THEN first_valid(candidates, i + 1, meta, query, clock)
    ELSE IF is_memory_valid(meta[candidates[i]], query, clock)
      THEN <<[entry     |-> meta[candidates[i]],
              position  |-> candidates[i],
              age_hours |-> get_age_hours(meta[candidates[i]].timestamp, clock)]>>
    ELSE first_valid(candidates, i + 1, meta, query, clock)

search_memory_faiss(index, meta, query, top_k, clock, embed_ok) ==
    IF Len(index) = 0 THEN None
    ELSE IF ~embed_ok THEN None
    ELSE first_valid(NearestFirst(index, Emb(query), Min(top_k, Len(index)), {}),
                     1, meta, query, clock)

search_document_faiss(docs, query, top_k, embed_ok) ==
    IF Len(docs) = 0 THEN <<>>
    ELSE IF ~embed_ok THEN <<>>
    ELSE SubSeq(docs, 1, Min(top_k, Len(docs)))

\* RetrieverAgent.run without the early returns: every tier is searched and
\* the last tier that hits names the source
RetrieverRunNoReturn(conv, index, meta, docs, query, clock, embed_ok) ==
    LET session_match == search_session_memory(conv, query, embed_ok[1])
        memory_match  == search_memory_faiss(index, meta, query, 3, clock, embed_ok[2])
        doc_results   == search_document_faiss(docs, query, 5, embed_ok[3])
    IN  [source |-> IF doc_results # <<>> THEN "documents"
                    ELSE IF memory_match # None THEN "memory"
                    ELSE IF session_match # None THEN "session"
                    ELSE "none",
         searched |-> <<"session", "memory", "documents">>,
         session_match |-> session_match, memory_match |-> memory_match,
         doc_results |-> doc_results]

\* RetrieverAgent.run: what it searched and what it wrote to context_data
RetrieverRun(conv, index, meta, docs, query, clock, embed_ok) ==
    LET session_match == search_session_memory(conv, query, embed_ok[1])
        memory_match  == search_memory_faiss(index, meta, query, 3, clock, embed_ok[2])
        doc_results   == search_document_faiss(docs, query, 5, embed_ok[3])
    IN  IF session_match # None
          THEN [source |-> "session", searched |-> <<"session">>,
                session_match |-> session_match, memory_match |-> None,
                doc_results |-> <<>>]
        ELSE IF memory_match # None
          THEN [source |-> "memory", searched |-> <<"session", "memory">>,
                session_match |-> session_match, memory_match |-> memory_match,
                doc_results |-> <<>>]
        ELSE [source |-> IF doc_results # <<>> THEN "documents" ELSE "none",
              searched |-> <<"session", "memory", "documents">>,
              session_match |-> session_match, memory_match |-> memory_match,
              doc_results |-> doc_results]

(***************************************************************************)
(* memory_agent.py: MemoryAgent, the Tier-2 write path.  `fault` is the    *)
(* place where the environment makes index_to_memory_faiss fail, if any:   *)
(* the embedding call, the write of index.bin or the write of              *)
(* metadata.json; every exception is caught and printed.                   *)
(***************************************************************************)
Faults == {"none", "embed", "write_index", "write_metadata"}

index_to_memory_faiss(t2, query, answer, confidence, source, session_id, clock, fault) ==
    LET ttl_hours == calculate_ttl_hours(source)
        metadata_entry == [query      |-> query,
                           answer     |-> answer,
                           confidence |-> confidence,
                           source     |-> source,
                           timestamp  |-> clock,
                           ttl_hours  |-> ttl_hours,
                           session_id |-> session_id]
    IN  CASE fault = "embed"          -> t2
          [] fault = "write_index"    -> t2
          [] fault = "write_metadata" -> [index    |-> Append(t2.index, Emb(query)),
                                          metadata |-> t2.metadata]
          [] OTHER                    -> [index    |-> Append(t2.index, Emb(query)),
                                          metadata |-> Append(t2.metadata, metadata_entry)]

save_successful_answer(t2, query, answer, confidence, source, goal_achieved, session_id, clock, fault) ==
    IF should_index_to_memory(confidence, source, answer, goal_achieved)
      THEN index_to_memory_faiss(t2, query, answer, confidence, source,
                                 session_id, clock, fault)
      ELSE t2

\* `if not self.session_memory`: a manager with no turns is falsy (__len__),
\* so nothing is added to it and -1 is returned
add_to_session(conv, query, answer, confidence, source, validated) ==
    IF Len(conv) = 0 THEN conv
    ELSE add_turn(conv, query, answer, confidence, source, validated)

(***************************************************************************)
(* State                                                                   *)
(***************************************************************************)
VARIABLES
    conversation,   \* SessionMemoryManager.conversation of the current manager
    faiss_index,    \* Tier 2: the vectors of faiss_index/memory/index.bin
    metadata,       \* Tier 2: the records of faiss_index/memory/metadata.json
    documents,      \* Tier 3: the chunks of the document index
    clock,          \* the time, in hours
    context_data,   \* blackboard.state.context_data
    retrieval,      \* the last RetrieverAgent.run: its query and what it found
    last_save,      \* the last save_successful_answer: its arguments and Tier 2 before
    pc,             \* position of Coordinator.run
    runs,           \* the number of Coordinator.run calls started on this Coordinator
    original_query, \* blackboard.state.original_query
    current_session_id, \* Coordinator.current_session_id
    hitl_config,    \* blackboard.state.hitl_config
    user_feedback,  \* blackboard.state.user_feedback
    perception,     \* the local perception of Coordinator.run
    step,           \* the local step of Coordinator.run
    step_count,     \* the local step_count of Coordinator.run
    final_answer,   \* blackboard.state.final_answer
    session_file,   \* memory/session_<session_id>.json, what save() wrote last
    result,         \* the value Coordinator.run returned
    mon,            \* history of the current run: calls made, outputs emitted
    promoting,      \* per session: where its save_successful_answer stands
    similar,        \* the last SessionMemoryManager.search_similar: arguments, result
    execution,      \* the last ExecutorAgent.run of a CODE step: snippet, tools, result
    server,         \* per websocket: its task, its WebSocketIOHandler, its client
    plan_versions,  \* blackboard.state.plan_versions
    current_plan_index, \* blackboard.state.current_plan_index
    latest_perception, \* blackboard.state.latest_perception
    last_call       \* the last call of a function taken on its own: arguments, outcome

memVars == <<conversation, faiss_index, metadata, documents, clock, context_data,
             retrieval, last_save>>

coordVars == <<pc, runs, original_query, current_session_id, hitl_config, user_feedback,
               perception, step, step_count, final_answer, session_file, result, mon>>

\* state of what runs beside one Coordinator.run
planVars == <<plan_versions, current_plan_index>>

sideVars == <<promoting, similar, execution, server, last_call>>

otherVars == <<promoting, similar, execution, server, last_call, plan_versions,
               current_plan_index, latest_perception>>

vars == <<memVars, coordVars, otherVars>>

Tier2 == [index |-> faiss_index, metadata |-> metadata]

\* dict.get(key, default)
Get(d, key, default) == IF key \in DOMAIN d THEN d[key] ELSE default

NoRetrieval == [query |-> "", result |-> None]

NoSave == [called |-> FALSE]

(***************************************************************************)
(* Bounds and input domains                                                *)
(***************************************************************************)
MaxEntries == 2

MaxTurns == 2

MaxPromotions == 1

\* the instants at which something happens, in hours
Times == <<0, 1, 2, 6, 7, 24, 25, 168, 169>>

\* the instants at which answers are promoted
SaveTimes == {0, 1}

Confidences == {0, 89, 90, 94, 95, 100}

(***************************************************************************)
(* The memory tiers on their own: answers are promoted, time passes,       *)
(* and queries are retrieved.                                              *)
(***************************************************************************)
\* the history of a run that has made no call yet; prior holds the turns that
\* earlier runs of this Coordinator passed to add_to_session
NewMon(tier2, file, prior) ==
    [entries |-> 0, prev |-> "none", call |-> "none", site |-> "idle",
     goal_seen |-> FALSE,
     after_goal |-> FALSE, plan_replans |-> 0, tier2_start |-> tier2,
     file_start |-> file, error_out |-> FALSE, answers_out |-> <<>>,
     turn_args |-> <<>>, prior |-> prior, raised |-> None, gate |-> None,
     plan_gate |-> None, proposed |-> None, ran_user_code |-> FALSE]

\* sessions of one server process (server.py: one Coordinator per connection,
\* each run an asyncio task on the one event loop)
Sessions == {"s1", "s2"}

NoPromotion == [pc |-> "idle", query |-> "", fault |-> "none", read |-> None,
                done |-> <<>>, overlapped |-> FALSE]

NoSearch == [called |-> FALSE]

NoExecution == [called |-> FALSE]

NoCall == [called |-> FALSE]

\* the websockets ConnectionManager.active_connections holds
Connections == {"ws1", "ws2"}

\* ConnectionManager.connect: one WebSocketIOHandler and one Coordinator for the
\* websocket, no task yet; WebSocketIOHandler.__init__: input_future is None
Connected(c) ==
    [io_handler |-> c, coordinator |-> c, task |-> "none", at |-> "none",
     input_future |-> None, started |-> 0, asked |-> 0, answered |-> 0,
     inbox |-> <<>>, returned |-> <<>>, dropped |-> <<>>, abandoned |-> 0]

\* GlobalAgentState(): no plan version, current_plan_index 0
PlanInit ==
    /\ plan_versions = <<>>
    /\ current_plan_index = 0

OtherInit ==
    /\ promoting = [s \in Sessions |-> NoPromotion]
    /\ similar = NoSearch
    /\ execution = NoExecution
    /\ server = [c \in Connections |-> Connected(c)]
    /\ PlanInit
    /\ latest_perception = None
    /\ last_call = NoCall

\* Coordinator.__init__: no run yet, no session id
CoordInit ==
    /\ pc = "idle"
    /\ runs = 0
    /\ original_query = ""
    /\ current_session_id = None
    /\ hitl_config = [require_plan_approval |-> FALSE, require_step_approval |-> FALSE]
    /\ user_feedback = <<>>
    /\ perception = None
    /\ step = None
    /\ step_count = 0
    /\ final_answer = None
    /\ session_file = None
    /\ result = None
    /\ mon = NewMon(Tier2, None, <<>>)

MemInit ==
    /\ conversation = <<>>
    /\ faiss_index = <<>>
    /\ metadata = <<>>
    /\ documents \in {<<>>, <<"chunk1", "chunk2">>}
    /\ clock = 0
    /\ context_data = <<>>
    /\ retrieval = NoRetrieval
    /\ last_save = NoSave
    /\ CoordInit
    /\ OtherInit

\* MemoryAgent.save_successful_answer
Save(qs, as, cs, ss, gs, limit) ==
    \E query \in qs, answer \in as, confidence \in cs, source \in ss,
       goal_achieved \in gs, fault \in Faults :
        LET t2 == save_successful_answer(Tier2, query, answer, confidence, source,
                                         goal_achieved, "s1", clock, fault)
        IN  /\ Len(faiss_index) < limit
            /\ clock \in SaveTimes
            /\ faiss_index' = t2.index
            /\ metadata' = t2.metadata
            /\ last_save' = [called |-> TRUE, query |-> query, answer |-> answer,
                             confidence |-> confidence, source |-> source,
                             goal_achieved |-> goal_achieved, fault |-> fault,
                             before |-> Tier2]
            /\ retrieval' = NoRetrieval
            /\ UNCHANGED <<conversation, documents, otherVars, clock, context_data, coordVars>>

\* time passes
Tick(instants) ==
    \E i \in 1..Len(Times) :
        /\ Times[i] \in instants
        /\ Times[i] > clock
        /\ clock' = Times[i]
        /\ retrieval' = NoRetrieval
        /\ last_save' = NoSave
        /\ UNCHANGED <<conversation, faiss_index, metadata, documents, otherVars, context_data,
                       coordVars>>

\* SessionMemoryManager.add_turn
AddTurn(qs, as, cs) ==
    \E query \in qs, answer \in as, confidence \in cs, validated \in BOOLEAN :
        /\ Len(conversation) < MaxTurns
        /\ conversation' = add_turn(conversation, query, answer, confidence,
                                    "documents", validated)
        /\ retrieval' = NoRetrieval
        /\ last_save' = NoSave
        /\ UNCHANGED <<faiss_index, metadata, documents, otherVars, clock, context_data, coordVars>>

\* RetrieverAgent.run
Retrieve(qs) ==
    \E query \in qs, embed_ok \in [1..3 -> BOOLEAN] :
        LET r == RetrieverRun(conversation, faiss_index, metadata, documents,
                              query, clock, embed_ok)
        IN  /\ retrieval' = [query |-> query, result |-> <<r>>, embed_ok |-> embed_ok]
            /\ context_data' = [source |-> r.source]
            /\ last_save' = NoSave
            /\ UNCHANGED <<conversation, faiss_index, metadata, documents, otherVars, clock,
                           coordVars>>

\* RetrieverAgent.search_memory_faiss
SearchMemory(qs) ==
    \E query \in qs, embed_ok \in BOOLEAN :
        LET m == search_memory_faiss(faiss_index, metadata, query, 3, clock, embed_ok)
        IN  /\ retrieval' = [query |-> query, result |-> <<[memory_match |-> m]>>,
                             embed_ok |-> <<TRUE, embed_ok, TRUE>>]
            /\ last_save' = NoSave
            /\ UNCHANGED <<conversation, faiss_index, metadata, documents, otherVars, clock,
                           context_data, coordVars>>

PromotedAnswers == {"The flat costs 5 cr."}

Tier2Next ==
    \/ Save({"cost of flat", "known cost"}, PromotedAnswers, {95},
            {"documents", "web", "Web_Search", "unknown"}, {TRUE}, MaxEntries)
    \/ Tick({Times[i] : i \in 1..Len(Times)})
    \/ SearchMemory(Queries)

SpecTier2 == MemInit /\ [][Tier2Next]_vars

\* the retrieval cascade over the three tiers
RetrieveNext ==
    \/ AddTurn({"cost of flat"}, {"The flat costs 5 cr."}, {89, 90})
    \/ Save({"cost of flat"}, PromotedAnswers, {95}, {"documents"}, {TRUE}, MaxEntries)
    \/ Tick({2})
    \/ Retrieve(Queries)

SpecRetrieve == MemInit /\ [][RetrieveNext]_vars

\* promotion on its own, over every kind of answer
PromoteNext ==
    Save({"cost of flat"}, Answers, {89, 90, 94, 95},
         {"documents", "RAG", "web", "Web_Search", "unknown"}, BOOLEAN, MaxPromotions)

SpecPromote == MemInit /\ [][PromoteNext]_vars

(***************************************************************************)
(* agent_state.py, the reasoning agents and the executor.  What an LLM or  *)
(* a tool answers is an input; the agent's own code is computed on it.     *)
(* A step's code is modelled by whether it is non-empty; an absent (None)  *)
(* conclusion or execution_result is the empty text "".                    *)
(***************************************************************************)
PlanStepTypes == {"CODE", "CONCLUDE", "NOP"}

Conclusions == {"", "The flat costs 5 cr."}

\* what the decision LLM answers: text that is no JSON, or a next_step object
DecisionOutputs ==
    {[json_ok |-> FALSE, step_index |-> 0, type |-> "NOP", code |-> FALSE,
      conclusion |-> ""]}
    \cup {[json_ok |-> TRUE, step_index |-> 0, type |-> t, code |-> c, conclusion |-> ""] :
            t \in {"CODE", "NOP", "ASK_USER"}, c \in BOOLEAN}
    \cup {[json_ok |-> TRUE, step_index |-> 0, type |-> "CONCLUDE", code |-> c,
           conclusion |-> x] : c \in BOOLEAN, x \in Conclusions}

\* str(e) of json.loads on text that is no JSON
JsonErrorText == "Expecting value: line 1 column 1 (char 0)"

\* str(e) of PlanStep(**next_step_data) on a type PlanStep does not declare
\* (its first line)
TypeErrorText == "1 validation error for PlanStep"

\* DecisionAgent.run: the PlanStep parsed from the answer, or the NOP fallback
DecisionRun(out) ==
    IF out.json_ok /\ out.type \in PlanStepTypes
      THEN [step_index |-> out.step_index, type |-> out.type, code |-> out.code,
            conclusion |-> out.conclusion, status |-> "pending",
            execution_result |-> ""]
      ELSE [step_index |-> -1, type |-> "NOP", code |-> FALSE, conclusion |-> "",
            status |-> "pending",
            execution_result |-> IF out.json_ok THEN TypeErrorText ELSE JsonErrorText]

\* lines 128-134: the answer is JSON and its next_step makes a PlanStep
Parses(out) == out.json_ok /\ out.type \in PlanStepTypes

\* GlobalAgentState.add_plan_version
add_plan_version(versions, steps) == Append(versions, steps)

\* GlobalAgentState.get_current_plan().append(step): without a version the
\* step goes to a list that get_current_plan made for the call and nobody keeps
append_to_current_plan(versions, s) ==
    IF versions = <<>> THEN versions
    ELSE [versions EXCEPT ![Len(versions)] = Append(@, s)]

\* a step as a plan version holds it: the version refers to the PlanStep the
\* decision made, which is known here by its step_index
AsPlanned(s) == [step_index |-> s.step_index]

\* DecisionAgent.run, lines 136-141: what the call does to the plan versions
Decide(mode, out) ==
    IF ~Parses(out)
      THEN UNCHANGED planVars
    ELSE IF mode = "initial"
      THEN /\ plan_versions' = add_plan_version(plan_versions,
                                                 <<AsPlanned(DecisionRun(out))>>)
           /\ current_plan_index' = Len(plan_versions') - 1
    ELSE /\ plan_versions' = append_to_current_plan(plan_versions,
                                                     AsPlanned(DecisionRun(out)))
         /\ UNCHANGED current_plan_index

Summaries == {"Purple", "The flat costs 5 cr."}

PerceptionConfidences == {89, 95}

\* what the perception LLM answers
PerceptionOutputs ==
    {[json_ok |-> FALSE, original_goal_achieved |-> FALSE, confidence |-> 0,
      solution_summary |-> ""],
     [json_ok |-> TRUE, original_goal_achieved |-> FALSE, confidence |-> 50,
      solution_summary |-> ""]}
    \cup {[json_ok |-> TRUE, original_goal_achieved |-> TRUE, confidence |-> c,
           solution_summary |-> x] : c \in PerceptionConfidences, x \in Summaries}

\* PerceptionAgent.run: the snapshot parsed from the answer, or the fallback
PerceptionRun(out) ==
    IF out.json_ok
      THEN [original_goal_achieved |-> out.original_goal_achieved,
            confidence |-> out.confidence,
            solution_summary |-> out.solution_summary]
      ELSE [original_goal_achieved |-> FALSE, confidence |-> 0,
            solution_summary |-> ""]

\* PerceptionAgent.run, lines 71-78: blackboard.latest_perception after the
\* call; only a snapshot that was parsed is stored
PerceptionStored(out, latest) == IF out.json_ok THEN <<PerceptionRun(out)>> ELSE latest

\* what run_user_code reports and what the response agent makes of it
ToolResults ==
    {[status |-> "success", interpreted |-> "tool output"],
     [status |-> "error", interpreted |-> "TOOL_FAILURE: Error 500 upstream"]}

\* an Optional[str] of the blackboard
Opt(text) == IF text = "" THEN None ELSE <<text>>

\* ExecutorAgent.run, line 60: update_perception(step.perception) at the end of
\* every call; nothing gives a step a perception, it is the None of PlanStep
StepPerception(s) == None

\* a variant that runs the code of any step that has code
ExecutorRun_any_code(s, tool, fa) ==
    IF s.code
      THEN [step |-> [s EXCEPT !.execution_result = tool.interpreted,
                               !.status = IF tool.status = "success"
                                            THEN "completed" ELSE "failed"],
            final_answer |-> fa, ran_user_code |-> TRUE]
    ELSE IF s.type = "CONCLUDE"
      THEN [step |-> [s EXCEPT !.status = "completed",
                               !.execution_result = s.conclusion],
            final_answer |-> Opt(s.conclusion), ran_user_code |-> FALSE]
    ELSE IF s.type = "NOP"
      THEN [step |-> [s EXCEPT !.status = "skipped"], final_answer |-> fa,
            ran_user_code |-> FALSE]
    ELSE [step |-> s, final_answer |-> fa, ran_user_code |-> FALSE]

\* ExecutorAgent.run: the step after execution, blackboard.final_answer, and
\* whether run_user_code was called
ExecutorRun(s, tool, fa) ==
    IF s.type = "CODE" /\ s.code
      THEN [step |-> [s EXCEPT !.execution_result = tool.interpreted,
                               !.status = IF tool.status = "success"
                                            THEN "completed" ELSE "failed"],
            final_answer |-> fa, ran_user_code |-> TRUE]
    ELSE IF s.type = "CONCLUDE"
      THEN [step |-> [s EXCEPT !.status = "completed",
                               !.execution_result = s.conclusion],
            final_answer |-> Opt(s.conclusion), ran_user_code |-> FALSE]
    ELSE IF s.type = "NOP"
      THEN [step |-> [s EXCEPT !.status = "skipped"], final_answer |-> fa,
            ran_user_code |-> FALSE]
    ELSE [step |-> s, final_answer |-> fa, ran_user_code |-> FALSE]

\* MemoryAgent.finalize_session: save() of a manager that is truthy
finalize_session(conv, file) == IF Len(conv) = 0 THEN file ELSE <<conv>>

\* get_source_display of Coordinator.run
get_source_display(source_type) ==
    CASE source_type = "session" -> "Tier 1 (Session Memory)"
      [] source_type = "memory" -> "Tier 2 (Conversation Memory)"
      [] source_type = "documents" -> "Tier 3 (Local Documents)"
      [] source_type = "web" -> "Web Search"
      [] OTHER -> "Reasoning/Tool"

\* the answers of Coordinator.run that are no answer to the query
MaxStepsText == "Max steps reached."

AbortedText == "Execution Aborted by User."

RateLimitText == "The system is currently experiencing high traffic (Rate Limit Exceeded). Please try again in a few minutes."

\* a variant that knows the rate limit by "429" only
HandlerConclusion_429_only(error_msg) ==
    IF Contains(Chars(error_msg), Chars("429"))
      THEN RateLimitText
      ELSE "An unexpected error occurred: " \o error_msg

\* the conclusion of the except branch of Coordinator.run
HandlerConclusion(error_msg) ==
    IF Contains(Chars(error_msg), Chars("429"))
       \/ Contains(Chars(error_msg), Chars("RESOURCE_EXHAUSTED"))
      THEN RateLimitText
      ELSE "An unexpected error occurred: " \o error_msg

\* str(e) of the AttributeError of a MemoryAgent without save_debug_snapshot
NoSnapshotError == "'MemoryAgent' object has no attribute 'save_debug_snapshot'"

\* memory_agent.save_debug_snapshot: it raises (FALSE) or returns (TRUE)
SnapshotOutcomes == BOOLEAN

max_steps == 20

(***************************************************************************)
(* coordinator.py: Coordinator.run, one action per agent call or user      *)
(* response together with the code that follows it up to the next one.     *)
(***************************************************************************)
runVars == <<runs, original_query, current_session_id, hitl_config>>

\* the history after a call of the perception, decision or executor agent,
\* made at position pc
Called(m, agent) ==
    [m EXCEPT !.prev = m.call, !.call = agent, !.site = pc, !.ran_user_code = FALSE,
              !.after_goal = m.after_goal \/ (m.goal_seen /\ agent # "perception")]

\* the history after the ExecutorAgent.run that returned ex
Executed(m, ex) == [Called(m, "executor") EXCEPT !.ran_user_code = ex.ran_user_code]

\* the history after a perception call that returned snapshot p
Perceived(m, p) ==
    [Called(m, "perception") EXCEPT !.goal_seen = m.goal_seen \/ p.original_goal_achieved]

\* the history after the answer output and the add_to_session call
Answered(m, answer, confidence, source) ==
    [m EXCEPT !.answers_out = Append(m.answers_out,
                                     [answer |-> answer,
                                      source |-> get_source_display(source)]),
              !.turn_args = <<[query |-> original_query, answer |-> answer,
                               confidence |-> confidence, validated |-> TRUE]>>]

\* lines 25-53: a new blackboard, new agents, a new SessionMemoryManager
StartRun(qs, hitls, may_start) ==
    \E q \in qs, h \in hitls :
        /\ pc \in {"idle", "done"}
        /\ may_start
        /\ runs' = runs + 1
        /\ original_query' = q
        /\ current_session_id' = IF current_session_id = None THEN <<"s1">>
                                 ELSE current_session_id
        /\ hitl_config' = h
        /\ user_feedback' = <<>>
        /\ final_answer' = None
        /\ context_data' = <<>>
        /\ conversation' = <<>>
        /\ perception' = None
        /\ step' = None
        /\ step_count' = 0
        /\ result' = None
        /\ mon' = NewMon(Tier2, session_file, mon.prior \o mon.turn_args)
        /\ retrieval' = NoRetrieval
        /\ last_save' = NoSave
        /\ pc' = "perceive_query"
        /\ plan_versions' = <<>>
        /\ current_plan_index' = 0
        /\ latest_perception' = None
        /\ UNCHANGED <<faiss_index, metadata, documents, sideVars, clock, session_file>>

\* lines 81-109 and 260-288 without the return
GoalContinues(p, default, m) ==
    /\ mon' = m
    /\ pc' = "retrieve"
    /\ UNCHANGED <<conversation, faiss_index, metadata, last_save, session_file, result>>

\* lines 81-109 and 260-288: the answer of a goal-achieved perception
GoalTerminal(p, default, m) ==
    \E fault \in Faults :
        LET source == Get(context_data, "source", default)
            answer == p.solution_summary
            conv   == add_to_session(conversation, original_query, answer,
                                     p.confidence, source, TRUE)
            t2     == save_successful_answer(Tier2, original_query, answer,
                                             p.confidence, source, TRUE,
                                             current_session_id[1], clock, fault)
        IN  /\ conversation' = conv
            /\ faiss_index' = t2.index
            /\ metadata' = t2.metadata
            /\ last_save' = [called |-> TRUE, query |-> original_query,
                             answer |-> answer, confidence |-> p.confidence,
                             source |-> source, goal_achieved |-> TRUE,
                             fault |-> fault, before |-> Tier2]
            /\ session_file' = finalize_session(conv, session_file)
            /\ result' = <<answer>>
            /\ mon' = Answered(m, answer, p.confidence, source)
            /\ pc' = "done"

\* lines 309-322: the except branch
ExceptionHandler(m, error_msg) ==
    /\ result' = <<HandlerConclusion(error_msg)>>
    /\ mon' = [m EXCEPT !.error_out = TRUE,
                        !.raised = <<error_msg>>,
                        !.answers_out = Append(m.answers_out,
                                               [answer |-> HandlerConclusion(error_msg),
                                                source |-> "Error Handler"])]
    /\ pc' = "done"

\* lines 55-109: perception of the user query
PerceiveQuery(outs) ==
    \E out \in outs :
        LET p == PerceptionRun(out)
        IN  /\ pc = "perceive_query"
            /\ perception' = <<p>>
            /\ latest_perception' = PerceptionStored(out, latest_perception)
            /\ IF p.original_goal_achieved
                 THEN GoalTerminal(p, "unknown", Perceived(mon, p))
                 ELSE /\ pc' = "retrieve"
                      /\ mon' = Perceived(mon, p)
                      /\ UNCHANGED <<conversation, faiss_index, metadata, last_save,
                                     session_file, result>>
            /\ UNCHANGED <<documents, sideVars, planVars, clock, context_data, retrieval,
                           runVars, user_feedback, step, step_count, final_answer>>

\* lines 111-117: RetrieverAgent.run on the query
RetrieveContext(embeds) ==
    \E embed_ok \in embeds :
        LET r == RetrieverRun(conversation, faiss_index, metadata, documents,
                              original_query, clock, embed_ok)
        IN  /\ pc = "retrieve"
            /\ retrieval' = [query |-> original_query, result |-> <<r>>,
                             embed_ok |-> embed_ok]
            /\ context_data' = [source |-> r.source]
            /\ mon' = [mon EXCEPT !.after_goal = mon.after_goal \/ mon.goal_seen]
            /\ pc' = "plan_initial"
            /\ UNCHANGED <<conversation, faiss_index, metadata, documents, otherVars, clock,
                           last_save, runVars, user_feedback, perception, step,
                           step_count, final_answer, session_file, result>>

\* lines 127-131: the step is shown to the user as the proposed plan
Proposed(m, s) == [m EXCEPT !.proposed = <<s>>]

\* a variant that goes on to the execution loop whatever hitl_config says
PlanInitial_no_gate(outs) ==
    \E out \in outs :
        /\ pc = "plan_initial"
        /\ step' = <<DecisionRun(out)>>
        /\ mon' = Called(mon, "decision")
        /\ pc' = "loop"
        /\ Decide("initial", out)
        /\ UNCHANGED <<memVars, sideVars, runVars, user_feedback, perception, step_count,
                       final_answer, session_file, result, latest_perception>>

\* lines 119-131: the initial plan, shown to the user when plans need approval
PlanInitial(outs) ==
    \E out \in outs :
        /\ pc = "plan_initial"
        /\ step' = <<DecisionRun(out)>>
        /\ mon' = IF hitl_config.require_plan_approval
                    THEN Proposed(Called(mon, "decision"), DecisionRun(out))
                    ELSE Called(mon, "decision")
        /\ pc' = IF hitl_config.require_plan_approval THEN "approve_plan" ELSE "loop"
        /\ Decide("initial", out)
        /\ UNCHANGED <<memVars, sideVars, runVars, user_feedback, perception, step_count,
                       final_answer, session_file, result, latest_perception>>

\* lines 125-143: one response of the user to the proposed plan
ApprovePlan(responses, outs, limit) ==
    \E feedback \in responses, out \in outs :
        /\ pc = "approve_plan"
        /\ IF Strip(Chars(feedback)) = <<>>
             THEN /\ pc' = "loop"
                  /\ mon' = [mon EXCEPT !.plan_gate = <<feedback>>]
                  /\ UNCHANGED <<user_feedback, step, planVars>>
             ELSE /\ mon.plan_replans < limit
                  /\ user_feedback' = Append(user_feedback, feedback)
                  /\ step' = <<DecisionRun(out)>>
                  /\ mon' = [Proposed(Called(mon, "decision"), DecisionRun(out)) EXCEPT
                                !.plan_replans = mon.plan_replans + 1,
                                !.plan_gate = <<feedback>>]
                  /\ pc' = "approve_plan"
                  /\ Decide("replan", out)
        /\ UNCHANGED <<memVars, sideVars, runVars, perception, step_count, final_answer,
                       session_file, result, latest_perception>>

\* lines 203-225: the answer of a CONCLUDE step
ConcludeTerminal(s, m) ==
    \E snapshot_saved \in SnapshotOutcomes :
        LET source == Get(context_data, "source", "Reasoning/Tool")
            conv   == add_to_session(conversation, original_query, s.conclusion,
                                     100, source, TRUE)
            m1     == Answered(m, s.conclusion, 100, source)
        IN  /\ step' = <<s>>
            /\ conversation' = conv
            /\ session_file' = finalize_session(conv, session_file)
            /\ IF snapshot_saved
                 THEN /\ result' = <<s.conclusion>>
                      /\ mon' = m1
                      /\ pc' = "done"
                 ELSE ExceptionHandler(m1, NoSnapshotError)
            /\ UNCHANGED <<user_feedback, planVars>>

\* lines 227-242: the question of an ASK_USER step and the replan on the reply
AskUser(s, m, outs, replies) ==
    \E reply \in replies, out \in outs :
        /\ user_feedback' = Append(user_feedback, reply)
        /\ step' = <<DecisionRun(out)>>
        /\ mon' = Called(m, "decision")
        /\ pc' = "loop"
        /\ Decide("replan", out)
        /\ UNCHANGED <<conversation, session_file, result>>

\* lines 195-245 without the perception of the result
AfterStepReplans(s, m, outs, replies) ==
    IF s.type = "CONCLUDE" THEN ConcludeTerminal(s, m)
    ELSE IF s.type = "ASK_USER" THEN AskUser(s, m, outs, replies)
    ELSE /\ step' = <<s>>
         /\ mon' = m
         /\ pc' = "replan"
         /\ UNCHANGED <<conversation, session_file, result, user_feedback, planVars>>

\* lines 195-245: what the loop does with the step the gate or the executor left
AfterStep(s, m, outs, replies) ==
    IF s.type = "CONCLUDE" THEN ConcludeTerminal(s, m)
    ELSE IF s.type = "ASK_USER" THEN AskUser(s, m, outs, replies)
    ELSE /\ step' = <<s>>
         /\ mon' = m
         /\ pc' = "perceive_result"
         /\ UNCHANGED <<conversation, session_file, result, user_feedback, planVars>>

\* line 157: the loop condition without its bound
LoopConditionNoBound(s, count) == s # None

\* line 157: while step and step_count < max_steps (a PlanStep is truthy)
LoopCondition(s, count) == s # None /\ count < max_steps

\* lines 157-158: the loop is entered once more; the plan gate is behind
Entered(m) ==
    [m EXCEPT !.entries = m.entries + 1, !.plan_gate = None, !.proposed = None]

\* lines 166-169: the loop is entered once more and the user answers at the
\* step's gate
Gated(m, feedback) == [Entered(m) EXCEPT !.gate = <<feedback>>]

\* lines 157-245 without step approval: the step is executed
ExecuteStep(tools, outs, replies) ==
    \E tool \in tools :
        LET ex == ExecutorRun(step[1], tool, final_answer)
        IN  /\ pc = "loop"
            /\ LoopCondition(step, step_count)
            /\ ~hitl_config.require_step_approval
            /\ step_count' = step_count + 1
            /\ final_answer' = ex.final_answer
            /\ latest_perception' = StepPerception(ex.step)
            /\ AfterStep(ex.step, Executed(Entered(mon), ex), outs, replies)
            /\ UNCHANGED <<faiss_index, metadata, documents, sideVars, clock, context_data,
                           retrieval, last_save, runVars, perception>>

\* lines 157-245 with step approval: one response of the user at the gate
StepGate(responses, tools, outs, replies) ==
    \E feedback \in responses, tool \in tools :
        LET answer == Strip(Lower(Chars(feedback)))
            ex     == ExecutorRun(step[1], tool, final_answer)
        IN  /\ pc = "loop"
            /\ LoopCondition(step, step_count)
            /\ hitl_config.require_step_approval
            /\ step_count' = step_count + 1
            /\ IF answer = Chars("stop")
                 THEN /\ result' = <<AbortedText>>
                      /\ mon' = Gated(mon, feedback)
                      /\ pc' = "done"
                      /\ UNCHANGED <<step, final_answer, conversation, session_file,
                                     user_feedback, planVars, latest_perception>>
               ELSE IF answer = Chars("skip")
                 THEN /\ UNCHANGED <<final_answer, latest_perception>>
                      /\ AfterStep([step[1] EXCEPT !.status = "skipped",
                                                   !.execution_result = "Skipped by user"],
                                   Gated(mon, feedback), outs, replies)
               ELSE /\ final_answer' = ex.final_answer
                    /\ latest_perception' = StepPerception(ex.step)
                    /\ AfterStep(ex.step, Executed(Gated(mon, feedback), ex), outs, replies)
            /\ UNCHANGED <<faiss_index, metadata, documents, sideVars, clock, context_data,
                           retrieval, last_save, runVars, perception>>

\* lines 244-288: perception of the step's result
PerceiveResult(outs) ==
    \E out \in outs :
        LET p == PerceptionRun(out)
        IN  /\ pc = "perceive_result"
            /\ perception' = <<p>>
            /\ latest_perception' = PerceptionStored(out, latest_perception)
            /\ IF p.original_goal_achieved
                 THEN GoalTerminal(p, "Reasoning/Tool", Perceived(mon, p))
                 ELSE /\ pc' = "replan"
                      /\ mon' = Perceived(mon, p)
                      /\ UNCHANGED <<conversation, faiss_index, metadata, last_save,
                                     session_file, result>>
            /\ UNCHANGED <<documents, sideVars, planVars, clock, context_data, retrieval,
                           runVars, user_feedback, step, step_count, final_answer>>

\* lines 290-300: the next step
Replan(outs) ==
    \E out \in outs :
        /\ pc = "replan"
        /\ step' = <<DecisionRun(out)>>
        /\ mon' = Called(mon, "decision")
        /\ pc' = "loop"
        /\ Decide("replan", out)
        /\ UNCHANGED <<memVars, sideVars, runVars, user_feedback, perception, step_count,
                       final_answer, session_file, result, latest_perception>>

\* lines 302-307: the loop ends on the bound
MaxStepsReached ==
    /\ pc = "loop"
    /\ ~LoopCondition(step, step_count)
    /\ result' = <<MaxStepsText>>
    /\ mon' = [mon EXCEPT !.error_out = TRUE]
    /\ pc' = "done"
    /\ UNCHANGED <<memVars, otherVars, runVars, user_feedback, perception, step, step_count,
                   final_answer, session_file>>

(***************************************************************************)
(* Specifications of Coordinator.run                                       *)
(***************************************************************************)
HitlConfigs == [require_plan_approval : BOOLEAN, require_step_approval : BOOLEAN]

PlanResponses == {"", " ", "use the web"}

GateResponses == {"", "skip", "stop", "Stop ", "use the web"}

Replies == {"use the web"}

\* the embedding service answers every call of a retrieval, or none
EmbedOutcomes == {<<TRUE, TRUE, TRUE>>, <<FALSE, FALSE, FALSE>>}

MaxFeedback == 2

\* one run of a new Coordinator, under every HITL configuration
Next ==
    \/ StartRun({"cost of flat"}, HitlConfigs, runs = 0)
    \/ PerceiveQuery(PerceptionOutputs)
    \/ RetrieveContext(EmbedOutcomes)
    \/ PlanInitial(DecisionOutputs)
    \/ ApprovePlan(PlanResponses, DecisionOutputs, MaxFeedback)
    \/ ExecuteStep(ToolResults, DecisionOutputs, Replies)
    \/ StepGate(GateResponses, ToolResults, DecisionOutputs, Replies)
    \/ PerceiveResult(PerceptionOutputs)
    \/ Replan(DecisionOutputs)
    \/ MaxStepsReached

\* the memory of a new deployment with its document index built
Init == MemInit /\ documents # <<>>

Spec == Init /\ [][Next]_vars

MaxPlanReplans == 21

\* one run with plan approval, where the user may keep answering with feedback
ApprovalNext ==
    \/ StartRun({"cost of flat"},
                {[require_plan_approval |-> TRUE, require_step_approval |-> FALSE]},
                runs = 0)
    \/ PerceiveQuery(PerceptionOutputs)
    \/ RetrieveContext({<<TRUE, TRUE, TRUE>>})
    \/ PlanInitial(DecisionOutputs)
    \/ ApprovePlan(PlanResponses, {o \in DecisionOutputs : o.json_ok /\ o.code},
                   MaxPlanReplans)
    \/ ExecuteStep({r \in ToolResults : r.status = "success"},
                   {o \in DecisionOutputs : o.json_ok /\ o.code}, Replies)
    \/ PerceiveResult({o \in PerceptionOutputs : o.confidence \in {50, 95}})
    \/ Replan({o \in DecisionOutputs : o.json_ok /\ o.code})
    \/ MaxStepsReached

SpecApproval == Init /\ [][ApprovalNext]_vars

MaxRuns == 2

SessionDecisions ==
    {o \in DecisionOutputs : o.json_ok /\ ~o.code /\ o.type \in {"CODE", "CONCLUDE"}}

SessionPerceptions ==
    {o \in PerceptionOutputs : o.json_ok /\ o.solution_summary # "Purple"}

\* consecutive runs of one Coordinator, without HITL
SessionNext ==
    \/ StartRun({"cost of flat", "Latest cost of flat"},
                {[require_plan_approval |-> FALSE, require_step_approval |-> FALSE]},
                runs < MaxRuns)
    \/ PerceiveQuery(SessionPerceptions)
    \/ RetrieveContext(EmbedOutcomes)
    \/ PlanInitial(SessionDecisions)
    \/ ExecuteStep({r \in ToolResults : r.status = "success"},
                   SessionDecisions, Replies)
    \/ PerceiveResult(SessionPerceptions)
    \/ Replan(SessionDecisions)
    \/ MaxStepsReached

SpecSession == Init /\ [][SessionNext]_vars

(***************************************************************************)
(* Properties of the memory tiers                                          *)
(***************************************************************************)
HasFreshnessKeyword(q) == \E keyword \in FRESHNESS_KEYWORDS : InLower(keyword, q)

\* a source tag that is given the TTL of web results
WebDerived(source) == InLower("web_search", source) \/ InLower("web", source)

\* the four rules of a reusable Tier-2 entry M of age `age` against query Q
RulesHold(M, age, Q) ==
    /\ M.confidence >= 90
    /\ age <= M.ttl_hours
    /\ HasFreshnessKeyword(Q) => age <= 1
    /\ WebDerived(M.source) => age <= 24

\* vector r of the index is nearer to query Q than vector p
Nearer(r, p, Q) ==
    \/ L2Distance(faiss_index[r], Emb(Q)) < L2Distance(faiss_index[p], Emb(Q))
    \/ /\ L2Distance(faiss_index[r], Emb(Q)) = L2Distance(faiss_index[p], Emb(Q))
       /\ r < p

\* vector p is among the top_k = 3 candidates of the search for Q
Candidate(p, Q) ==
    Cardinality({r \in 1..Len(faiss_index) : Nearer(r, p, Q)}) < 3

Searched == retrieval.result # None

MemoryMatch == retrieval.result[1].memory_match

PromotionConditions ==
    /\ last_save.goal_achieved
    /\ last_save.confidence >= 90
    /\ StrLen(last_save.answer) >= 20
    /\ \A indicator \in error_indicators : ~InLower(indicator, last_save.answer)
    /\ WebDerived(last_save.source) => last_save.confidence >= 95

Tier2Unchanged ==
    /\ faiss_index = last_save.before.index
    /\ metadata = last_save.before.metadata

\* one vector and one record, holding the arguments, were appended
Promoted ==
    /\ Len(faiss_index) = Len(last_save.before.index) + 1
    /\ SubSeq(faiss_index, 1, Len(last_save.before.index)) = last_save.before.index
    /\ Len(metadata) = Len(last_save.before.metadata) + 1
    /\ SubSeq(metadata, 1, Len(last_save.before.metadata)) = last_save.before.metadata
    /\ metadata[Len(metadata)].query = last_save.query
    /\ metadata[Len(metadata)].answer = last_save.answer
    /\ metadata[Len(metadata)].confidence = last_save.confidence
    /\ metadata[Len(metadata)].source = last_save.source

RetrievalResult == retrieval.result[1]

\* some validated, confident turn is similar enough to the query
Tier1Hit ==
    /\ retrieval.embed_ok[1]
    /\ \E i \in 1..Len(conversation) :
          /\ conversation[i].validated
          /\ conversation[i].confidence >= 90
          /\ Max(CosineSimilarity(retrieval.query, conversation[i].query),
                 CosineSimilarity(retrieval.query, conversation[i].answer)) >= 85

\* some candidate of the Tier-2 search passes the rules
Tier2Hit ==
    /\ retrieval.embed_ok[2]
    /\ \E r \in 1..Len(metadata) :
          /\ Candidate(r, retrieval.query)
          /\ RulesHold(metadata[r], clock - metadata[r].timestamp, retrieval.query)

\* the document search returns a chunk
Tier3Hit == retrieval.embed_ok[3] /\ Len(documents) > 0

\* C8: after RetrieverAgent.run the source is "session" iff Tier 1 hit, "memory"
\* iff Tier 1 missed and Tier 2 hit, "documents" iff both missed and Tier 3
\* returned a chunk, "none" otherwise; no tier below the first hit is searched,
\* and all three are searched when Tier 3 is empty.
C8_PriorityCascade ==
    Searched =>
        /\ context_data.source = RetrievalResult.source
        /\ RetrievalResult.source = "session" <=> Tier1Hit
        /\ RetrievalResult.source = "memory" <=> (~Tier1Hit /\ Tier2Hit)
        /\ RetrievalResult.source = "documents" <=> (~Tier1Hit /\ ~Tier2Hit /\ Tier3Hit)
        /\ RetrievalResult.source = "none" <=> (~Tier1Hit /\ ~Tier2Hit /\ ~Tier3Hit)
        /\ Tier1Hit => RetrievalResult.searched = <<"session">>
        /\ (~Tier1Hit /\ Tier2Hit) => RetrievalResult.searched = <<"session", "memory">>
        /\ (~Tier1Hit /\ ~Tier2Hit) =>
               RetrievalResult.searched = <<"session", "memory", "documents">>

\* C8 witness: Tier 1 holds a turn but misses, Tier 2 hits, and Tier 3, which
\* holds chunks, is not searched
C8_Witness ==
    /\ Searched
    /\ Len(conversation) > 0
    /\ ~Tier1Hit
    /\ RetrievalResult.source = "memory"
    /\ Tier3Hit
    /\ RetrievalResult.searched = <<"session", "memory">>

(***************************************************************************)
(* Properties of Coordinator.run                                           *)
(***************************************************************************)
\* the run has returned a non-success outcome
Failed ==
    /\ pc = "done"
    /\ result # None
    /\ \/ result[1] \in {MaxStepsText, AbortedText}
       \/ result[1] = HandlerConclusion(NoSnapshotError)

\* the run has returned an answer, of a CONCLUDE step or of a perception
ReturnedAnswer == pc = "done" /\ result # None /\ ~Failed

\* C1: in a run the execution loop is entered at most max_steps = 20 times, every
\* entry (executed, skipped at the gate or ASK_USER) consumes one unit of the
\* bound, and when the bound is exhausted the run emits an error message and
\* returns "Max steps reached.".
C1_MaxStepsBound ==
    /\ [](mon.entries <= max_steps /\ mon.entries = step_count)
    /\ [](result = <<MaxStepsText>> => mon.error_out /\ mon.entries = max_steps)
    /\ [][pc = "loop" /\ step_count = max_steps =>
            pc' = "done" /\ result' = <<MaxStepsText>> /\ mon'.error_out]_vars

\* C1 witness: a run with step approval that used up the bound
C1_Witness ==
    /\ pc = "done"
    /\ result = <<MaxStepsText>>
    /\ mon.entries = max_steps
    /\ hitl_config.require_step_approval

\* C2 as stated: the plan-approval loop makes at most max_steps replans
C2_ApprovalCoveredByBound == mon.plan_replans <= max_steps

\* C2: with require_plan_approval the approval loop is outside the max_steps
\* bound: it consumes none of it (step_count stays 0), a blank response ends it
\* and leaves the plan alone, every other response appends that feedback and
\* makes one replan-mode decision, however many there were; the execution loop
\* that follows approval is entered at most max_steps times.
C2_ApprovalOutsideBound ==
    /\ [](pc = "approve_plan" => step_count = 0 /\ mon.entries = 0)
    /\ [](mon.entries <= max_steps)
    /\ [][pc = "approve_plan" =>
            \/ /\ pc' = "loop"
               /\ UNCHANGED <<user_feedback, step, step_count>>
               /\ mon' = [mon EXCEPT !.plan_gate = mon'.plan_gate]
            \/ /\ pc' = "approve_plan"
               /\ Len(user_feedback') = Len(user_feedback) + 1
               /\ SubSeq(user_feedback', 1, Len(user_feedback)) = user_feedback
               /\ user_feedback'[Len(user_feedback')] \notin {"", " "}
               /\ mon'.plan_replans = mon.plan_replans + 1
               /\ mon'.call = "decision"
               /\ step_count' = 0]_vars

\* C2 witness: a run that made more than max_steps plan replans, was approved
\* and then used up the bound of the execution loop
C2_Witness ==
    /\ hitl_config.require_plan_approval
    /\ mon.plan_replans > max_steps
    /\ pc = "done"
    /\ result = <<MaxStepsText>>

\* C3: once a perception of the run reports original_goal_achieved, the run has
\* returned that snapshot's solution_summary, and no retriever, decision or
\* executor call was made after it.
C3_GoalTerminal ==
    mon.goal_seen =>
        /\ pc = "done"
        /\ perception # None
        /\ perception[1].original_goal_achieved
        /\ result = <<perception[1].solution_summary>>
        /\ mon.call = "perception"
        /\ ~mon.after_goal

\* C3 witness: the goal was achieved by the perception of a step result
C3_Witness ==
    /\ mon.goal_seen
    /\ mon.prev = "executor"
    /\ mon.entries > 1
    /\ result = <<"Purple">>

C5_FailureLeavesNoTrace ==
    Failed =>
        /\ Tier2 = mon.tier2_start
        /\ \A i \in 1..Len(conversation) : ~conversation[i].validated
        /\ session_file = mon.file_start
        /\ final_answer = None

\* C6 as stated: a run appends at most one turn to session memory, and a run
\* that returned an answer has appended exactly one, validated, holding the
\* query and the answer
C6_OneTurnPerAnswer ==
    /\ Len(conversation) <= 1
    /\ ReturnedAnswer =>
          /\ Len(conversation) = 1
          /\ conversation[1].validated
          /\ conversation[1].query = original_query
          /\ conversation[1].answer = result[1]

\* the turns that earlier runs of this Coordinator recorded as validated with
\* confidence >= 0.9 and that are similar enough to the query of this run
SimilarPriorTurns ==
    {i \in 1..Len(mon.prior) :
        /\ mon.prior[i].validated
        /\ mon.prior[i].confidence >= 90
        /\ \/ CosineSimilarity(original_query, mon.prior[i].query) >= 85
           \/ CosineSimilarity(original_query, mon.prior[i].answer) >= 85}

\* C7 as stated: when an earlier query of the session recorded a validated turn
\* with confidence >= 0.9 whose query or answer is similar (>= 0.85) to this
\* run's query, the retrieval of this run hits Tier 1 and sets the source to
\* "session"
C7_FollowUpHitsTier1 ==
    (/\ retrieval.result # None
     /\ retrieval.embed_ok[1]
     /\ SimilarPriorTurns # {})
    => /\ context_data.source = "session"
       /\ retrieval.result[1].session_match # None

(***************************************************************************)
(* Sessions promoting concurrently (server.py, memory_agent.py)            *)
(***************************************************************************)
\* promotions one session makes
MaxSessionPromotions == 2

PromotedQueries == Queries

\* a session's run reaches `await memory_agent.save_successful_answer(...)`;
\* the awaits before it (agent calls, io) are where the event loop switches tasks
SessionReachesSave(s) ==
    /\ promoting[s].pc = "idle"
    /\ Len(promoting[s].done) < MaxSessionPromotions
    /\ promoting' = [promoting EXCEPT ![s].pc = "pending"]
    /\ UNCHANGED <<memVars, coordVars, similar, execution, server, planVars,
                   latest_perception, last_call>>

OthersPending(s) == \E o \in Sessions \ {s} : promoting[o].pc \in {"pending", "read"}

Completed(p, query, fault) ==
    [pc |-> "idle", query |-> query, fault |-> fault, read |-> None,
     done |-> IF fault = "none" THEN Append(p.done, query) ELSE p.done,
     overlapped |-> p.overlapped]

\* a variant that gives up control between faiss.read_index/json.loads and the
\* writes, as an await between them would
SessionPromoteYields(s, qs, faults) ==
    \/ \E query \in qs, fault \in faults :
        /\ promoting[s].pc = "pending"
        /\ promoting' = [promoting EXCEPT ![s] =
                            [@ EXCEPT !.pc = "read", !.query = query, !.fault = fault,
                                      !.read = <<Tier2>>,
                                      !.overlapped = @ \/ OthersPending(s)]]
        /\ UNCHANGED <<memVars, coordVars, similar, execution, server, planVars,
                   latest_perception, last_call>>
    \/ /\ promoting[s].pc = "read"
       /\ LET p  == promoting[s]
              t2 == index_to_memory_faiss(p.read[1], p.query, "The flat costs 5 cr.", 95,
                                          "Reasoning/Tool", s, clock, p.fault)
          IN  /\ faiss_index' = t2.index
              /\ metadata' = t2.metadata
              /\ promoting' = [promoting EXCEPT ![s] = Completed(p, p.query, p.fault)]
       /\ UNCHANGED <<conversation, documents, clock, context_data, retrieval, last_save,
                      coordVars, similar, execution, server, planVars,
                   latest_perception, last_call>>

\* `await self.index_to_memory_faiss(...)`: the coroutine body (memory_agent.py
\* 84-120) has no await, its faiss, json and requests calls are synchronous, so
\* the event loop runs it from read_index to json.dump without switching task
SessionPromote(s, qs, faults) ==
    \E query \in qs, fault \in faults :
        /\ promoting[s].pc = "pending"
        /\ LET p  == [promoting[s] EXCEPT !.overlapped = @ \/ OthersPending(s)]
               t2 == index_to_memory_faiss(Tier2, query, "The flat costs 5 cr.", 95,
                                           "Reasoning/Tool", s, clock, fault)
           IN  /\ faiss_index' = t2.index
               /\ metadata' = t2.metadata
               /\ promoting' = [promoting EXCEPT ![s] = Completed(p, query, fault)]
        /\ UNCHANGED <<conversation, documents, clock, context_data, retrieval, last_save,
                       coordVars, similar, execution, server, planVars,
                   latest_perception, last_call>>

ConcurrentNext ==
    \/ \E s \in Sessions : SessionReachesSave(s)
    \/ \E s \in Sessions : SessionPromote(s, PromotedQueries, {"none", "embed"})

SpecConcurrent == MemInit /\ [][ConcurrentNext]_vars

(***************************************************************************)
(* Properties of concurrent promotion                                      *)
(***************************************************************************)
\* the records of Tier 2 that session s wrote, in order
RECURSIVE QueriesOf(_, _)
QueriesOf(md, s) ==
    IF md = <<>> THEN <<>>
    ELSE IF md[1].session_id = s THEN <<md[1].query>> \o QueriesOf(Tail(md), s)
    ELSE QueriesOf(Tail(md), s)

Aligned ==
    /\ Len(faiss_index) = Len(metadata)
    /\ \A k \in 1..Len(metadata) : faiss_index[k] = Emb(metadata[k].query)

threshold_default == 85

\* SessionMemoryManager.search_similar(query)
SearchSimilar(qs) ==
    \E query \in qs, embed_ok \in BOOLEAN :
        /\ similar' = [called |-> TRUE, query |-> query, embed_ok |-> embed_ok,
                       conv |-> conversation,
                       result |-> search_similar(conversation, query, threshold_default,
                                                 embed_ok)]
        /\ UNCHANGED <<memVars, coordVars, promoting, execution, server, planVars,
                   latest_perception, last_call>>

SimilarNext ==
    \/ AddTurn(Queries, {"The flat costs 5 cr.", "Purple"}, {89, 90})
    \/ SearchSimilar(Queries)

SpecSimilar == MemInit /\ [][SimilarNext]_vars

(***************************************************************************)
(* Properties of session search                                            *)
(***************************************************************************)
\* max(sim(q, turn.query), sim(q, turn.answer)) of the last search
TurnSimilarity(turn) ==
    Max(calculate_similarity(similar.query, turn.query, similar.embed_ok),
        calculate_similarity(similar.query, turn.answer, similar.embed_ok))

EligibleTurns ==
    {i \in 1..Len(similar.conv) :
        /\ similar.conv[i].validated
        /\ similar.conv[i].confidence >= 90
        /\ TurnSimilarity(similar.conv[i]) >= threshold_default}

\* the earliest inserted of the eligible turns of maximum similarity
BestTurn ==
    CHOOSE i \in EligibleTurns :
        \A j \in EligibleTurns :
            \/ TurnSimilarity(similar.conv[j]) < TurnSimilarity(similar.conv[i])
            \/ TurnSimilarity(similar.conv[j]) = TurnSimilarity(similar.conv[i]) /\ i <= j

\* C12: search_similar returns no hit when no turn is validated with confidence
\* >= 0.9 and similarity >= 0.85 (so none when no turn is validated), and
\* otherwise returns, of those turns, the one of maximum similarity, the
\* earliest inserted on ties, with that similarity
C12_SearchSimilar ==
    similar.called =>
        IF EligibleTurns = {} THEN similar.result = None
        ELSE /\ similar.result # None
             /\ similar.result[1].turn = similar.conv[BestTurn]
             /\ similar.result[1].similarity = TurnSimilarity(similar.conv[BestTurn])

\* a search over two eligible turns of equal similarity, which returned the first
C12_Witness ==
    /\ similar.called
    /\ \E i, j \in EligibleTurns :
          /\ i < j
          /\ TurnSimilarity(similar.conv[i]) = TurnSimilarity(similar.conv[j])
          /\ BestTurn = i
    /\ similar.result # None
    /\ similar.result[1].turn.turn_id = BestTurn - 1

\* a search that skipped a nearer turn for not being validated
C12_WitnessSkipped ==
    /\ similar.called
    /\ similar.result # None
    /\ \E i \in 1..Len(similar.conv) :
          /\ ~similar.conv[i].validated
          /\ TurnSimilarity(similar.conv[i]) > similar.result[1].similarity

(***************************************************************************)
(* action/executor.py: the syntax trees of snippets (module ast)           *)
(***************************************************************************)
\* expressions
Name(id) == [node |-> "Name", id |-> id]

Constant(value) == [node |-> "Constant", value |-> value]

Attribute(value, attr) == [node |-> "Attribute", value |-> value, attr |-> attr]

\* keywords holds the values of the keyword arguments; skip_auto_await is the
\* attribute _skip_auto_await, which a parsed tree does not have (False)
Call(func, args, keywords) ==
    [node |-> "Call", func |-> func, args |-> args, keywords |-> keywords,
     skip_auto_await |-> FALSE]

Await(value) == [node |-> "Await", value |-> value]

\* statements
Expr(value) == [node |-> "Expr", value |-> value]

Assign(id, value) == [node |-> "Assign", targets |-> <<Name(id)>>, value |-> value]

Return(value) == [node |-> "Return", value |-> value]

Import(name) == [node |-> "Import", name |-> name]

FunctionDef(name, body) == [node |-> "FunctionDef", name |-> name, body |-> body]

AsyncFunctionDef(name, body) == [node |-> "AsyncFunctionDef", name |-> name, body |-> body]

\* `if True:` and `while True:` blocks
If(body) == [node |-> "If", body |-> body]

While(body) == [node |-> "While", body |-> body]

HasValue == {"Attribute", "Await", "Expr", "Assign", "Return"}

HasBody == {"FunctionDef", "AsyncFunctionDef", "If", "While"}

\* ast.iter_child_nodes
iter_child_nodes(n) ==
    CASE n.node = "Call"    -> <<n.func>> \o n.args \o n.keywords
      [] n.node = "Assign"  -> n.targets \o <<n.value>>
      [] n.node \in HasValue \ {"Assign"} -> <<n.value>>
      [] n.node \in HasBody  -> n.body
      [] OTHER               -> <<>>

\* sum(isinstance(node, ast.Call) for node in ast.walk(tree))
RECURSIVE count_calls(_), count_calls_all(_)
count_calls(n) == (IF n.node = "Call" THEN 1 ELSE 0) + count_calls_all(iter_child_nodes(n))

count_calls_all(nodes) ==
    IF nodes = <<>> THEN 0 ELSE count_calls(Head(nodes)) + count_calls_all(Tail(nodes))

count_function_calls(code) == count_calls_all(code)

\* the names of ast.FunctionDef and ast.AsyncFunctionDef nodes of ast.walk(tree)
RECURSIVE defs_in(_), defs_in_all(_)
defs_in(n) ==
    (IF n.node \in {"FunctionDef", "AsyncFunctionDef"} THEN {n.name} ELSE {})
        \cup defs_in_all(iter_child_nodes(n))

defs_in_all(nodes) ==
    IF nodes = <<>> THEN {} ELSE defs_in(Head(nodes)) \cup defs_in_all(Tail(nodes))

local_defs(body) == defs_in_all(body)

\* KeywordStripper: every call's keyword values are appended to its args
RECURSIVE KeywordStripper_visit(_)
KeywordStripper_visit_all(nodes) ==
    [i \in 1..Len(nodes) |-> KeywordStripper_visit(nodes[i])]

KeywordStripper_generic_visit(n) ==
    CASE n.node = "Call"     -> [n EXCEPT !.func = KeywordStripper_visit(@),
                                          !.args = KeywordStripper_visit_all(@),
                                          !.keywords = KeywordStripper_visit_all(@)]
      [] n.node \in HasValue -> [n EXCEPT !.value = KeywordStripper_visit(@)]
      [] n.node \in HasBody  -> [n EXCEPT !.body = KeywordStripper_visit_all(@)]
      [] OTHER               -> n

KeywordStripper_visit_Call(n) ==
    LET v == KeywordStripper_generic_visit(n)
    IN  [v EXCEPT !.args = @ \o v.keywords, !.keywords = <<>>]

KeywordStripper_visit(n) ==
    IF n.node = "Call" THEN KeywordStripper_visit_Call(n)
    ELSE KeywordStripper_generic_visit(n)

\* AwaitTransformer
RECURSIVE AwaitTransformer_visit(_, _)
AwaitTransformer_visit_all(nodes, async_funcs) ==
    [i \in 1..Len(nodes) |-> AwaitTransformer_visit(nodes[i], async_funcs)]

AwaitTransformer_generic_visit(n, async_funcs) ==
    CASE n.node = "Call"     -> [n EXCEPT !.func = AwaitTransformer_visit(@, async_funcs),
                                          !.args = AwaitTransformer_visit_all(@, async_funcs),
                                          !.keywords = AwaitTransformer_visit_all(@, async_funcs)]
      [] n.node \in HasValue -> [n EXCEPT !.value = AwaitTransformer_visit(@, async_funcs)]
      [] n.node \in HasBody  -> [n EXCEPT !.body = AwaitTransformer_visit_all(@, async_funcs)]
      [] OTHER               -> n

\* the inner call is marked so that it is not wrapped again
AwaitTransformer_visit_Await(n, async_funcs) ==
    LET marked == IF n.value.node = "Call"
                    THEN [n.value EXCEPT !.skip_auto_await = TRUE]
                    ELSE n.value
    IN  [n EXCEPT !.value = AwaitTransformer_visit(marked, async_funcs)]

\* a variant that wraps every call of a registered tool, marked or not
AwaitTransformer_visit_Call_always(n, async_funcs) ==
    LET v == AwaitTransformer_generic_visit(n, async_funcs)
    IN  IF v.func.node = "Name" /\ v.func.id \in async_funcs THEN Await(v) ELSE v

AwaitTransformer_visit_Call(n, async_funcs) ==
    LET v == AwaitTransformer_generic_visit(n, async_funcs)
    IN  IF v.skip_auto_await THEN v
        ELSE IF v.func.node = "Name" /\ v.func.id \in async_funcs THEN Await(v)
        ELSE v

AwaitTransformer_visit(n, async_funcs) ==
    CASE n.node = "Await" -> AwaitTransformer_visit_Await(n, async_funcs)
      [] n.node = "Call"  -> AwaitTransformer_visit_Call(n, async_funcs)
      [] OTHER            -> AwaitTransformer_generic_visit(n, async_funcs)

(***************************************************************************)
(* action/executor.py: the values a snippet computes with                  *)
(***************************************************************************)
PyNone == [t |-> "NoneType", v |-> ""]

PyStr(text) == [t |-> "str", v |-> text]

PyInt(digits) == [t |-> "int", v |-> digits]

\* a dict, by its repr
PyDict(repr) == [t |-> "dict", v |-> repr]

PyModule(name) == [t |-> "module", v |-> name]

\* a builtin or another function of the interpreter
PyBuiltin(name) == [t |-> "builtin", v |-> name]

\* the proxy _tool_fn that make_tool_proxy(name, mcp) returns
PyTool(name) == [t |-> "tool", v |-> name]

\* a function the snippet defines
PyFunction(def) ==
    [t |-> "function", v |-> def.name, body |-> def.body,
     async |-> def.node = "AsyncFunctionDef"]

\* a coroutine object: a call of an async function that has not run yet
PyCoroutine(f) == [t |-> "coroutine", v |-> f.v, of |-> f]

\* mcp.types.CallToolResult; text is content[0].text, has_content says whether
\* content is non-empty
CallToolResult(has_content, text, isError) ==
    [t |-> "CallToolResult", v |-> text, has_content |-> has_content, isError |-> isError]

\* an exception, by type name and message
PyException(type, message) == [t |-> type, v |-> message]

\* str(x)
str(x) ==
    CASE x.t = "NoneType" -> "None"
      [] x.t \in {"str", "int", "dict"} -> x.v
      [] x.t = "module" -> "<module '" \o x.v \o "'>"
      [] x.t = "CallToolResult" ->
            "meta=None content=[" \o (IF x.has_content THEN "TextContent(text='" \o x.v \o "')"
                                      ELSE "")
                \o "] isError=" \o (IF x.isError THEN "True" ELSE "False")
      [] OTHER -> "<" \o x.t \o " " \o x.v \o ">"

\* json.loads(text) of the texts tools answer with: whether it parses, and to what
json_loads(text) ==
    CASE text = "{\"result\": \"42\"}" ->
            [ok |-> TRUE, is_dict |-> TRUE, has_result |-> TRUE, extracted |-> PyStr("42"),
             data |-> PyDict("{'result': '42'}")]
      [] text = "{\"status\": \"ok\"}" ->
            [ok |-> TRUE, is_dict |-> TRUE, has_result |-> FALSE, extracted |-> PyNone,
             data |-> PyDict("{'status': 'ok'}")]
      [] text = "42" ->
            [ok |-> TRUE, is_dict |-> FALSE, has_result |-> FALSE, extracted |-> PyNone,
             data |-> PyInt("42")]
      [] OTHER ->
            [ok |-> FALSE, is_dict |-> FALSE, has_result |-> FALSE, extracted |-> PyNone,
             data |-> PyNone]

(***************************************************************************)
(* action/executor.py: make_tool_proxy                                     *)
(***************************************************************************)
\* what one `await mcp.function_wrapper(...)` does: it raises, it answers with a
\* CallToolResult, or it never answers
Raises(message) == [kind |-> "raise", error |-> PyException("ConnectionError", message)]

Returns(res) == [kind |-> "return", res |-> res]

NeverAnswers == [kind |-> "hang"]

max_retries == 3

\* the unwrapping of a CallToolResult: the `result` of a JSON object, the parsed
\* JSON, the raw text, or the result itself when it has no content
unwrap(res) ==
    IF res.has_content
      THEN LET data == json_loads(res.v)
           IN  IF data.ok
                 THEN IF data.is_dict /\ data.has_result THEN data.extracted ELSE data.data
                 ELSE PyStr(res.v)
      ELSE res

\* the retry loop of _tool_fn over the outcomes of its function_wrapper calls:
\* how it ends, with what, after which attempts and sleeps (in tenths of a second)
RECURSIVE tool_fn_loop(_, _, _, _, _)
tool_fn_loop(attempt, retries, outs, sleeps, last_error) ==
    IF attempt >= retries
      THEN [ctl |-> "raise", value |-> last_error, attempts |-> attempt,
            sleeps |-> sleeps, rest |-> outs]
    ELSE
      LET out == IF outs = <<>> THEN Returns(CallToolResult(TRUE, "ok", FALSE))
                 ELSE Head(outs)
          rest == IF outs = <<>> THEN <<>> ELSE Tail(outs)
      IN  CASE out.kind = "return" ->
                  [ctl |-> "return", value |-> unwrap(out.res), attempts |-> attempt + 1,
                   sleeps |-> sleeps, rest |-> rest]
            [] out.kind = "hang" ->
                  [ctl |-> "hang", value |-> PyNone, attempts |-> attempt + 1,
                   sleeps |-> sleeps, rest |-> rest]
            [] OTHER ->
                  tool_fn_loop(attempt + 1, retries, rest,
                               Append(sleeps, 5 * (attempt + 1)), out.error)

\* a variant that makes one attempt more
tool_fn_once_more(outs) == tool_fn_loop(0, max_retries + 1, outs, <<>>, PyNone)

tool_fn(outs) == tool_fn_loop(0, max_retries, outs, <<>>, PyNone)

(***************************************************************************)
(* action/executor.py: the sandbox and the execution of a snippet in it    *)
(***************************************************************************)
ALLOWED_MODULES ==
    {"math", "cmath", "decimal", "fractions", "random", "statistics", "itertools",
     "functools", "operator", "string", "re", "datetime", "calendar", "time",
     "collections", "heapq", "bisect", "types", "copy", "enum", "uuid", "dataclasses",
     "typing", "pprint", "json", "base64", "hashlib", "hmac", "secrets", "struct", "zlib",
     "gzip", "bz2", "lzma", "io", "pathlib", "tempfile", "textwrap", "difflib",
     "unicodedata", "html", "html.parser", "xml", "xml.etree.ElementTree", "csv",
     "sqlite3", "contextlib", "traceback", "ast", "tokenize", "token", "builtins"}

MAX_FUNCTIONS == 50

TIMEOUT_PER_FUNCTION == 500

\* the modules the interpreter can import: its standard library
InstalledModules == ALLOWED_MODULES \cup {"os", "subprocess", "sys"}

\* multi_mcp.get_all_tools(): the names of the registered tools
RegisteredTools == {"search", "fetch"}

\* build_safe_globals: the builtins it copies, the tool proxies, the modules it
\* imports beforehand, final_answer and parallel
build_safe_globals(mcp_funcs) ==
    [builtins |-> {"range", "len", "int", "float", "str", "list", "dict", "print", "sum",
                   "type", "__import__"},
     mcp_funcs |-> mcp_funcs,
     modules |-> ALLOWED_MODULES,
     others |-> {"final_answer", "parallel"}]

\* the state of one execution of __main in a sandbox
NewEnv(sandbox, outs) ==
    [sandbox |-> sandbox, locals |-> <<>>, slot |-> None, stdout |-> <<>>,
     ctl |-> "next", value |-> PyNone, calls |-> <<>>, outs |-> outs, imported |-> {}]

Raised(env, type, message) ==
    [env EXCEPT !.ctl = "raise", !.value = PyException(type, message)]

Bind(env, id, value) == [env EXCEPT !.locals = (id :> value) @@ @]

\* name lookup: the function's scope, the sandbox globals, its __builtins__
Lookup(env, id) ==
    IF id \in DOMAIN env.locals THEN [env EXCEPT !.value = env.locals[id]]
    ELSE IF id \in env.sandbox.mcp_funcs THEN [env EXCEPT !.value = PyTool(id)]
    ELSE IF id \in env.sandbox.modules THEN [env EXCEPT !.value = PyModule(id)]
    ELSE IF id \in env.sandbox.others \cup env.sandbox.builtins
      THEN [env EXCEPT !.value = PyBuiltin(id)]
    ELSE Raised(env, "NameError", "name '" \o id \o "' is not defined")

\* what _tool_fn prints, abridged: three lines on entry, one for each failed
\* attempt, one on return
ToolPrints(r) ==
    <<"[MCP] Calling tool", "[MCP] Arg types", "[MCP] Arg values">>
        \o [i \in 1..Len(r.sleeps) |-> "[MCP] Tool attempt failed"]
        \o (IF r.ctl = "return" THEN <<"[MCP] Tool returned">> ELSE <<>>)

\* `await _tool_fn(*args)`
AwaitTool(env, name) ==
    LET r == tool_fn(env.outs)
    IN  [env EXCEPT !.outs = r.rest,
                    !.calls = Append(@, [tool |-> name, attempts |-> r.attempts,
                                         sleeps |-> r.sleeps, ctl |-> r.ctl,
                                         value |-> r.value,
                                         seen |-> SubSeq(env.outs, 1,
                                                         Len(env.outs) - Len(r.rest))]),
                    !.stdout = @ \o ToolPrints(r),
                    !.ctl = IF r.ctl = "return" THEN "next" ELSE r.ctl,
                    !.value = r.value]

\* final_answer = lambda x: safe_globals.setdefault("result_holder", x)
FinalAnswer(env, x) ==
    LET slot == IF env.slot = None THEN <<x>> ELSE env.slot
    IN  [env EXCEPT !.slot = slot, !.value = slot[1]]

RECURSIVE eval(_, _), eval_all(_, _, _), exec_body(_, _)
\* the body of a function the snippet defines, run in the caller's view of names
CallFunction(env, f) ==
    LET r == exec_body(f.body, env)
    IN  CASE r.ctl = "return" -> [r EXCEPT !.ctl = "next", !.locals = env.locals]
          [] r.ctl = "next"   -> [r EXCEPT !.value = PyNone, !.locals = env.locals]
          [] OTHER            -> r

\* a call of the value f with the argument values args
Apply(env, f, args) ==
    CASE f.t = "builtin" /\ f.v = "print" ->
            [env EXCEPT !.stdout = Append(@, IF args = <<>> THEN "" ELSE str(args[1])),
                        !.value = PyNone]
      [] f.t = "builtin" /\ f.v = "final_answer" /\ args # <<>> ->
            FinalAnswer(env, args[1])
      [] f.t = "builtin" /\ f.v = "str" /\ args # <<>> ->
            [env EXCEPT !.value = PyStr(str(args[1]))]
      [] f.t = "builtin" /\ f.v = "os.getcwd" ->
            [env EXCEPT !.value = PyStr("/app")]
      [] f.t = "tool" -> [env EXCEPT !.value = PyCoroutine(f)]
      [] f.t = "function" /\ f.async -> [env EXCEPT !.value = PyCoroutine(f)]
      [] f.t = "function" /\ ~f.async -> CallFunction(env, f)
      [] OTHER -> Raised(env, "TypeError", "'" \o f.t \o "' object is not callable")

\* `await x`
AwaitValue(env, x) ==
    IF x.t = "coroutine" /\ x.of.t = "tool" THEN AwaitTool(env, x.v)
    ELSE IF x.t = "coroutine" THEN CallFunction(env, x.of)
    ELSE Raised(env, "TypeError",
                "object " \o x.t \o " can't be used in 'await' expression")

\* the values of the expressions es, left to right, collected in acc
eval_all(es, env, acc) ==
    IF es = <<>> THEN [env EXCEPT !.value = [t |-> "args", v |-> "", items |-> acc]]
    ELSE LET r == eval(Head(es), env)
         IN  IF r.ctl # "next" THEN r
             ELSE eval_all(Tail(es), r, Append(acc, r.value))

eval(e, env) ==
    CASE e.node = "Constant" -> [env EXCEPT !.value = e.value]
      [] e.node = "Name" -> Lookup(env, e.id)
      [] e.node = "Attribute" ->
            LET r == eval(e.value, env)
            IN  IF r.ctl # "next" THEN r
                ELSE IF r.value.t = "module"
                  THEN [r EXCEPT !.value = PyBuiltin(r.value.v \o "." \o e.attr)]
                ELSE Raised(r, "AttributeError",
                            "'" \o r.value.t \o "' object has no attribute '" \o e.attr
                                \o "'")
      [] e.node = "Await" ->
            LET r == eval(e.value, env)
            IN  IF r.ctl # "next" THEN r ELSE AwaitValue(r, r.value)
      [] e.node = "Call" ->
            LET f == eval(e.func, env)
            IN  IF f.ctl # "next" THEN f
                ELSE LET a == eval_all(e.args \o e.keywords, f, <<>>)
                     IN  IF a.ctl # "next" THEN a
                         ELSE Apply(a, f.value, a.value.items)
      [] OTHER -> Raised(env, "SyntaxError", "invalid syntax")

\* `import name`: the import statement calls __builtins__["__import__"]
ExecImport(env, name) ==
    IF "__import__" \notin env.sandbox.builtins
      THEN Raised(env, "ImportError", "__import__ not found")
    ELSE IF name \notin InstalledModules
      THEN Raised(env, "ModuleNotFoundError", "No module named '" \o name \o "'")
    ELSE [Bind(env, name, PyModule(name)) EXCEPT !.imported = @ \cup {name}]

\* `while True:` never ends by itself; a body that awaits a tool gives the event
\* loop its turn ("hang", which a timeout can cancel), another body never does
\* ("block")
ExecWhile(env, r) ==
    IF r.ctl # "next" THEN r
    ELSE IF Len(r.calls) > Len(env.calls) THEN [r EXCEPT !.ctl = "hang"]
    ELSE [r EXCEPT !.ctl = "block"]

ExecStmt(st, env) ==
    CASE st.node = "Expr"   -> eval(st.value, env)
      [] st.node = "Assign" ->
            LET r == eval(st.value, env)
            IN  IF r.ctl # "next" THEN r ELSE Bind(r, st.targets[1].id, r.value)
      [] st.node = "Return" ->
            LET r == eval(st.value, env)
            IN  IF r.ctl # "next" THEN r ELSE [r EXCEPT !.ctl = "return"]
      [] st.node = "Import" -> ExecImport(env, st.name)
      [] st.node \in {"FunctionDef", "AsyncFunctionDef"} ->
            Bind(env, st.name, PyFunction(st))
      [] st.node = "If"     -> exec_body(st.body, env)
      [] st.node = "While"  -> ExecWhile(env, exec_body(st.body, env))
      [] OTHER -> Raised(env, "SyntaxError", "invalid syntax")

exec_body(body, env) ==
    IF body = <<>> THEN env
    ELSE LET r == ExecStmt(Head(body), env)
         IN  IF r.ctl # "next" THEN r ELSE exec_body(Tail(body), r)

(***************************************************************************)
(* action/executor.py: run_user_code                                       *)
(***************************************************************************)
\* a snippet: the message of its syntax error ("" when it parses) and its tree
Code(body) == [syntax_error |-> "", body |-> body]

Unparsable == [syntax_error |-> "SyntaxError: invalid syntax at line 1", body |-> <<>>]

\* validate_code
validate_code(code) == Opt(code.syntax_error)

\* any(isinstance(node, ast.Return) for node in tree.body)
has_return(body) == \E i \in 1..Len(body) : body[i].node = "Return"

\* any top-level ast.Assign with a target named result
has_result(body) ==
    \E i \in 1..Len(body) :
        /\ body[i].node = "Assign"
        /\ \E k \in 1..Len(body[i].targets) : body[i].targets[k] = Name("result")

auto_return(body) ==
    IF ~has_return(body) /\ has_result(body) THEN Append(body, Return(Name("result")))
    ELSE body

\* lines 141-152: KeywordStripper, local_defs, AwaitTransformer
rewrite(body, tool_funcs) ==
    LET stripped == KeywordStripper_visit_all(auto_return(body))
        safe_tools_to_await == tool_funcs \ local_defs(stripped)
    IN  AwaitTransformer_visit_all(stripped, safe_tools_to_await)

\* compile(): an await in the body of a synchronous def is a SyntaxError
RECURSIVE await_outside_async(_, _), await_outside_async_any(_, _)
await_outside_async(n, in_sync) ==
    CASE n.node = "Await" -> in_sync \/ await_outside_async(n.value, in_sync)
      [] n.node = "FunctionDef" -> await_outside_async_any(n.body, TRUE)
      [] n.node = "AsyncFunctionDef" -> await_outside_async_any(n.body, FALSE)
      [] OTHER -> await_outside_async_any(iter_child_nodes(n), in_sync)

await_outside_async_any(nodes, in_sync) ==
    \E i \in 1..Len(nodes) : await_outside_async(nodes[i], in_sync)

\* f.getvalue().strip(), for printed lines without surrounding white space
RECURSIVE join_lines(_)
join_lines(lines) ==
    IF lines = <<>> THEN ""
    ELSE IF Len(lines) = 1 THEN lines[1]
    ELSE lines[1] \o "\n" \o join_lines(Tail(lines))

getvalue_strip(lines) ==
    LET full == {i \in 1..Len(lines) : lines[i] # ""}
    IN  IF full = {} THEN ""
        ELSE join_lines(SubSeq(lines, CHOOSE i \in full : \A j \in full : i <= j,
                               CHOOSE i \in full : \A j \in full : j <= i))

NoOutputText == "Executed successfully (no output)."

\* what a run that returned nothing to report looks like
NoRun ==
    [returns |-> TRUE, status |-> "", text |-> "", func_count |-> 0, timeout |-> None,
     sandbox_built |-> FALSE, tree |-> <<>>, timed_out |-> FALSE, calls |-> <<>>,
     imported |-> {}, returned |-> PyNone, slot |-> None, stdout_output |-> "",
     effective |-> PyNone]

ErrorResult(r, text) == [r EXCEPT !.status = "error", !.text = text]

\* a variant that takes the effective value without the test of its str()
resolve_is_none(returned, slot, stdout_output) ==
    LET held == IF returned.t # "NoneType" THEN returned
                ELSE IF slot # None THEN slot[1] ELSE PyNone
    IN  IF held.t = "NoneType"
          THEN PyStr(IF stdout_output # "" THEN stdout_output ELSE NoOutputText)
          ELSE held

\* lines 178-185: explicit return > result_holder > stdout
resolve(returned, slot, stdout_output) ==
    LET held == IF returned.t # "NoneType" THEN returned
                ELSE IF slot # None THEN slot[1] ELSE PyNone
    IN  IF held.t = "NoneType" \/ str(held) = "None"
          THEN PyStr(IF stdout_output # "" THEN stdout_output ELSE NoOutputText)
          ELSE held

\* lines 189-207: the text of a CallToolResult whose isError is set
tool_error_text(x) == IF x.has_content THEN x.v ELSE str(x)

\* lines 178-215: the result made of a __main that returned
finished(ran, returned, slot, stdout_output, result_value) ==
    IF result_value.t = "CallToolResult" /\ result_value.isError
      THEN ErrorResult([ran EXCEPT !.returned = returned, !.slot = slot,
                                   !.stdout_output = stdout_output,
                                   !.effective = result_value],
                       tool_error_text(result_value))
      ELSE [ran EXCEPT !.returned = returned, !.slot = slot,
                       !.stdout_output = stdout_output, !.effective = result_value,
                       !.status = "success", !.text = str(result_value)]

resolved(ran, returned, slot, stdout_output) ==
    finished(ran, returned, slot, stdout_output, resolve(returned, slot, stdout_output))

\* lines 167-224: what is made of the end env of __main under wait_for; on a
\* timeout wait_for cancels __main and raises TimeoutError, which the
\* `except Exception` of the inner try receives (the handler of lines 227-233 is
\* outside that try)
ended(ran, env) ==
    CASE env.ctl = "block" -> [ran EXCEPT !.returns = FALSE]
      [] env.ctl = "hang"  -> ErrorResult([ran EXCEPT !.timed_out = TRUE],
                                          "TimeoutError" \o ": " \o "")
      [] env.ctl = "raise" -> ErrorResult(ran, env.value.t \o ": " \o env.value.v)
      [] OTHER -> resolved(ran, IF env.ctl = "return" THEN env.value ELSE PyNone,
                           env.slot, getvalue_strip(env.stdout))

ran_main(r, env) ==
    ended([r EXCEPT !.timeout = <<Max(3, r.func_count * TIMEOUT_PER_FUNCTION)>>,
                    !.calls = env.calls, !.imported = env.imported], env)

run_main(r, tree, sandbox, outs) == ran_main(r, exec_body(tree, NewEnv(sandbox, outs)))

\* a variant with no limit on the number of calls
over_budget_never(func_count) == FALSE

over_budget(func_count) == func_count > MAX_FUNCTIONS

\* lines 120-166: the sandbox, the rewritten tree, compile(); an error of
\* compile() is raised outside the inner try: `except Exception`, str(e)
build_and_run(counted, tree, tool_funcs, outs) ==
    IF await_outside_async_any(tree, FALSE)
      THEN ErrorResult([counted EXCEPT !.sandbox_built = TRUE, !.tree = tree],
                       "'await' outside async function")
      ELSE run_main([counted EXCEPT !.sandbox_built = TRUE, !.tree = tree], tree,
                    build_safe_globals(tool_funcs), outs)

counted_run(code, func_count, outs) ==
    IF over_budget(func_count)
      THEN ErrorResult([NoRun EXCEPT !.func_count = func_count],
                       "Too many functions (" \o ToString(func_count) \o " > "
                           \o ToString(MAX_FUNCTIONS) \o ")")
      ELSE build_and_run([NoRun EXCEPT !.func_count = func_count],
                         rewrite(code.body, RegisteredTools), RegisteredTools, outs)

run_user_code(code, outs) ==
    IF validate_code(code) # None THEN ErrorResult(NoRun, validate_code(code)[1])
    ELSE counted_run(code, count_function_calls(code.body), outs)

(***************************************************************************)
(* executor_agent.py: ExecutorAgent.run on CODE steps                      *)
(***************************************************************************)
CodeStep ==
    [step_index |-> 0, type |-> "CODE", code |-> TRUE, conclusion |-> "",
     status |-> "pending", execution_result |-> ""]

\* ExecutorAgent.run(step) of a CODE step with the snippet code, the registered
\* tools behaving as outs says; a run_user_code that never returns leaves the
\* step as it was
ExecuteCode(codes, envs) ==
    \E code \in codes, outs \in envs :
        LET r == run_user_code(code, outs)
            tool == [status |-> r.status, interpreted |-> "tool output"]
        IN  /\ ~execution.called
            /\ execution' = [called |-> TRUE, code |-> code, outs |-> outs, res |-> r,
                             step |-> IF r.returns
                                        THEN ExecutorRun(CodeStep, tool, None).step
                                        ELSE CodeStep]
            /\ UNCHANGED <<memVars, coordVars, promoting, similar, server, planVars,
                   latest_perception, last_call>>

\* Coordinator.run takes the step that ExecutorAgent.run returned and goes on
StepReturned ==
    /\ execution.called
    /\ execution.res.returns
    /\ execution' = NoExecution
    /\ UNCHANGED <<memVars, coordVars, promoting, similar, server, planVars,
                   latest_perception, last_call>>

\* snippets: expressions and statements they are made of
Lit(text) == Constant(PyStr(text))

Call1(id, arg) == Call(Name(id), <<arg>>, <<>>)

PrintHello == Expr(Call1("print", Lit("hello")))

SearchCall == Call1("search", Lit("q"))

\* n statements `str("x")`, each one call expression
Padding(n) == [i \in 1..n |-> Expr(Call1("str", Lit("x")))]

\* the sequences of 1 to n statements from stmts
SeqsUpTo(stmts, n) == UNION {[1..k -> stmts] : k \in 1..n}

MaxStatements == 3

\* snippets around the limit on call expressions
BudgetSnippets ==
    {Unparsable} \cup
    {Code(Padding(n) \o tail) :
        n \in {0, 1, MAX_FUNCTIONS - 2, MAX_FUNCTIONS - 1, MAX_FUNCTIONS, MAX_FUNCTIONS + 1},
        tail \in {<<>>, <<Return(Constant(PyInt("5")))>>, <<Return(SearchCall)>>,
                  <<Expr(SearchCall), PrintHello>>}}

\* snippets that return, assign result, call final_answer and print
ValueStatements ==
    {PrintHello, Expr(Call1("print", Lit(""))),
     Expr(Call1("final_answer", Constant(PyInt("5")))),
     Expr(Call1("final_answer", Constant(PyNone))),
     Expr(Call1("final_answer", Lit("None"))),
     Assign("result", Constant(PyInt("6"))), Assign("result", Constant(PyNone)),
     If(<<Assign("result", Constant(PyInt("6")))>>), Assign("x", Constant(PyInt("1"))),
     Return(Constant(PyInt("7"))), Return(Constant(PyNone)), Return(Lit("None"))}

ValueSnippets == {Code(b) : b \in SeqsUpTo(ValueStatements, MaxStatements)}

\* what the registered tools answer with
ToolAnswers ==
    {CallToolResult(TRUE, "upstream 500", TRUE), CallToolResult(TRUE, "upstream 500", FALSE),
     CallToolResult(TRUE, "{\"result\": \"42\"}", FALSE), CallToolResult(FALSE, "", TRUE)}

Outcomes == {Raises("e1"), Raises("e2"), NeverAnswers} \cup {Returns(a) : a \in ToolAnswers}

\* outcomes of the successive function_wrapper calls of a run
MaxOutcomes == 3

ToolEnvs == {<<>>} \cup SeqsUpTo(Outcomes, MaxOutcomes)

FirstOutcomes == {<<>>} \cup SeqsUpTo(Outcomes, 1)

FetchCall == Call1("fetch", Lit("q"))

\* snippets that call the registered tools, and snippets that never end
ToolSnippets ==
    {Code(b) : b \in {<<Return(SearchCall)>>, <<Expr(SearchCall)>>,
                      <<Assign("result", SearchCall)>>,
                      <<Expr(SearchCall), Return(FetchCall)>>,
                      Padding(1) \o <<Return(SearchCall)>>,
                      <<While(<<>>)>>, <<While(<<Expr(SearchCall)>>)>>}}

\* snippets that import a module and return it, or return it without importing
ImportedNames == {"os", "subprocess", "math", "json", "nosuchmodule"}

ImportSnippets ==
    {Code(<<Import(m), Return(Name(m))>>) : m \in ImportedNames}
        \cup {Code(<<Return(Name(m))>>) : m \in ImportedNames}

\* snippets with calls of tools and of other things, awaited or not, and with
\* local functions, one of them named as a tool
RewriteStatements ==
    {Expr(SearchCall), Expr(Await(SearchCall)), Return(Call1("search", SearchCall)),
     Assign("result", FetchCall), Expr(Call1("str", Lit("x"))),
     Expr(Await(Call1("helper", Lit("x")))),
     Expr(Call(Attribute(Name("math"), "search"), <<Lit("x")>>, <<>>)),
     Expr(Call(Name("search"), <<>>, <<Call1("str", Lit("x"))>>)),
     FunctionDef("search", <<Return(Lit("7"))>>),
     FunctionDef("helper", <<Return(SearchCall)>>),
     AsyncFunctionDef("helper", <<Return(Await(FetchCall))>>)}

MaxRewriteStatements == 2

RewriteSnippets == {Code(b) : b \in SeqsUpTo(RewriteStatements, MaxRewriteStatements)}

\* steps of each kind of snippet, one at a time
ExecutorNext ==
    \/ ExecuteCode(BudgetSnippets, FirstOutcomes)
    \/ ExecuteCode(ValueSnippets, {<<>>})
    \/ ExecuteCode(ToolSnippets, ToolEnvs)
    \/ ExecuteCode(ImportSnippets, {<<>>})
    \/ ExecuteCode(RewriteSnippets, {<<>>})
    \/ StepReturned

SpecExecutor == MemInit /\ [][ExecutorNext]_vars

(***************************************************************************)
(* Properties of the sandboxed executor                                    *)
(***************************************************************************)
\* the run ended before a sandbox was built, no tool invoked
RejectedEarly ==
    /\ execution.res.returns
    /\ execution.res.status = "error"
    /\ ~execution.res.sandbox_built
    /\ execution.res.calls = <<>>

\* C13: a snippet that parses is rejected with status=error before any sandbox
\* is built and without any tool call iff it has more than MAX_FUNCTIONS (50)
\* call expressions; with 0 to 50 of them the sandbox is built and the snippet
\* run, unless compile refuses the rewritten snippet
C13_OperationBudget ==
    (execution.called /\ execution.code.syntax_error = "") =>
        LET n == count_calls_all(execution.code.body)
        IN  /\ RejectedEarly <=> n > 50
            /\ n <= 50 =>
                  /\ execution.res.sandbox_built
                  /\ \/ execution.res.timeout # None
                     \/ execution.res.text = "'await' outside async function"
            /\ n > 50 => execution.res.text = "Too many functions (" \o ToString(n)
                                                  \o " > 50)"

\* a snippet of 51 call expressions, one of them a tool call, was rejected
C13_Witness ==
    /\ execution.called
    /\ execution.code.syntax_error = ""
    /\ count_calls_all(execution.code.body) = 51
    /\ \E i \in 1..Len(execution.code.body) : execution.code.body[i] = Return(SearchCall)
    /\ RejectedEarly

\* a snippet of exactly 50 call expressions was run and called its tool
C13_WitnessAccepted ==
    /\ execution.called
    /\ execution.code.syntax_error = ""
    /\ count_calls_all(execution.code.body) = 50
    /\ execution.res.status = "success"
    /\ Len(execution.res.calls) = 1

\* a value that is there: not None
Present(x) == x.t # "NoneType"

\* the effective value by the priority order: the value __main returned (an
\* explicit return or the appended `return result`), else the one final_answer
\* captured, else the captured output, else the sentinel
ByPriority(res) ==
    IF Present(res.returned) THEN str(res.returned)
    ELSE IF res.slot # None /\ Present(res.slot[1]) THEN str(res.slot[1])
    ELSE IF res.stdout_output # "" THEN res.stdout_output
    ELSE "Executed successfully (no output)"

RanToItsEnd == execution.called /\ execution.res.returns /\ execution.res.status = "success"

\* C15: the result of a snippet that ran to its end is its effective value in
\* strict priority order: return value (or the auto-returned top-level result),
\* else the value of final_answer, else the captured standard output if
\* non-empty, else the sentinel "Executed successfully (no output)" (taken here
\* with or without the full stop the code ends it with); a lower source is
\* used only when every higher one is absent
C15_StrictPriority ==
    RanToItsEnd =>
        \/ execution.res.text = ByPriority(execution.res)
        \/ /\ execution.res.text = NoOutputText
           /\ ByPriority(execution.res) = "Executed successfully (no output)"

\* __main did not finish: it waits for a tool that never answers, or loops for ever
DidNotFinish == execution.called /\ (execution.res.timed_out \/ ~execution.res.returns)

\* C14: a run has the total timeout max(3 s, call_count x per_call_budget); a
\* run whose entry function does not finish within it is cancelled and ends
\* with status=error that names a Timeout and reports the timeout applied; the
\* snippet is run once, so it makes no more tool calls than it has call
\* expressions
C14_TimeoutReported ==
    execution.called =>
        /\ execution.res.timeout # None =>
              execution.res.timeout[1] = Max(3, execution.res.func_count * TIMEOUT_PER_FUNCTION)
        /\ DidNotFinish =>
              /\ execution.res.returns
              /\ execution.res.status = "error"
              /\ Contains(execution.res.text, "Timeout")
              /\ Contains(execution.res.text, ToString(execution.res.timeout[1]))
        /\ Len(execution.res.calls) <= execution.res.func_count

\* the snippet's effective value is what its one tool call gave
ToolValueIsEffective ==
    /\ execution.called
    /\ execution.code.body \in {<<Return(SearchCall)>>, <<Assign("result", SearchCall)>>}
    /\ Len(execution.res.calls) = 1
    /\ execution.res.calls[1].seen # <<>>

\* the last answer function_wrapper gave to the k-th tool call of the run
LastSeen(k) == execution.res.calls[k].seen[Len(execution.res.calls[k].seen)]

\* a ToolResult with the is_error flag and a text content block
IsToolError(out) == out.kind = "return" /\ out.res.isError /\ out.res.has_content

\* C16: when a tool call of the snippet yields a ToolResult whose is_error flag
\* is true, with a text content block, and that result is the snippet's
\* effective value, the run ends with status=error and the extracted text, and
\* the step's status becomes failed, never completed
C16_ToolErrorUnwrap ==
    (ToolValueIsEffective /\ IsToolError(LastSeen(1))) =>
        /\ execution.res.returns
        /\ execution.res.status = "error"
        /\ execution.res.text = LastSeen(1).res.v
        /\ execution.step.status = "failed"

\* the j-th function_wrapper call of the run raises
Raising(j) == j <= Len(execution.outs) /\ execution.outs[j].kind = "raise"

\* how many times in a row function_wrapper raises from the start of the run,
\* counted up to 3
FailuresInARow ==
    CHOOSE n \in 0..3 : (\A j \in 1..n : Raising(j)) /\ (n = 3 \/ ~Raising(n + 1))

MadeAToolCall == execution.called /\ execution.res.calls # <<>>

C18_WitnessRecovered ==
    /\ MadeAToolCall
    /\ FailuresInARow = 2
    /\ Len(execution.outs) = 3
    /\ execution.outs[3].kind = "return"
    /\ execution.res.calls[1].attempts = 3
    /\ execution.res.status = "success"

\* the snippet has the statement `import m`
Imports(m) ==
    /\ execution.called
    /\ \E i \in 1..Len(execution.code.body) : execution.code.body[i] = Import(m)

\* C19: a snippet that imports a module outside ALLOWED_MODULES (os,
\* subprocess) ends with status=error and never obtains the module; an import
\* of an allow-listed module succeeds
C19_ImportAllowlist ==
    \A m \in ImportedNames :
        Imports(m) =>
            IF m \in ALLOWED_MODULES
              THEN execution.res.status = "success" /\ m \in execution.res.imported
              ELSE execution.res.status = "error" /\ m \notin execution.res.imported

\* the call expressions of a tree in the order of ast.walk's depth-first
\* variant: for each its callee, when a bare name, and the number of awaits
\* it is the operand of
RECURSIVE CallsIn(_, _), CallsInAll(_)
CallsIn(n, awaits) ==
    IF n.node = "Await" THEN CallsIn(n.value, awaits + 1)
    ELSE (IF n.node = "Call"
            THEN <<[callee |-> IF n.func.node = "Name" THEN <<n.func.id>> ELSE None,
                    awaits |-> awaits]>>
            ELSE <<>>) \o CallsInAll(iter_child_nodes(n))

CallsInAll(nodes) ==
    IF nodes = <<>> THEN <<>> ELSE CallsIn(Head(nodes), 0) \o CallsInAll(Tail(nodes))

Rewritten == execution.called /\ execution.res.sandbox_built

\* C20: after the rewrite a call expression is the operand of exactly one await
\* iff its callee is a bare name of a registered tool that no function
\* definition of the snippet has, or the source awaited it; otherwise of none;
\* calls of a local function named as a tool are not wrapped, no call is
\* awaited twice, and the call expressions are the same in number and order
C20_AutoAwait ==
    Rewritten =>
        LET src == CallsInAll(execution.code.body)
            out == CallsInAll(execution.res.tree)
            defs == local_defs(execution.code.body)
        IN  /\ Len(out) = Len(src)
            /\ count_calls_all(execution.res.tree) = count_calls_all(execution.code.body)
            /\ \A i \in 1..Len(src) :
                  /\ out[i].callee = src[i].callee
                  /\ out[i].awaits <= 1
                  /\ out[i].awaits = 1 <=>
                        \/ src[i].awaits = 1
                        \/ /\ src[i].callee # None
                           /\ src[i].callee[1] \in RegisteredTools \ defs

\* a snippet with a bare tool call, an awaited tool call and a local function
\* was rewritten: a call got its await, an awaited one kept its single one
C20_Witness ==
    /\ Rewritten
    /\ \E i, j \in 1..Len(execution.code.body) :
          /\ execution.code.body[i] = Expr(Await(SearchCall))
          /\ execution.code.body[j] = Assign("result", FetchCall)
    /\ \E i \in 1..Len(execution.res.tree) :
          execution.res.tree[i] = Assign("result", Await(FetchCall))

\* a snippet that defines search itself was rewritten and its call left alone
C20_WitnessShadowed ==
    /\ Rewritten
    /\ execution.code.body = <<FunctionDef("search", <<Return(Lit("7"))>>),
                               Return(Call1("search", SearchCall))>>
    /\ execution.res.tree = execution.code.body
    /\ execution.res.status = "success"
    /\ execution.res.text = "7"

(***************************************************************************)
(* Properties of the coordinator's handling of a failed step               *)
(***************************************************************************)
\* the result of a step starts with the tool-failure marker or contains "Error"
FailureResult(s) ==
    \/ /\ Len(s.execution_result) >= Len("TOOL_FAILURE")
       /\ SubSeq(s.execution_result, 1, Len("TOOL_FAILURE")) = "TOOL_FAILURE"
    \/ Contains(s.execution_result, "Error")

\* C17: whenever the result of the step just executed starts with the
\* tool-failure marker or contains "Error", the step the coordinator takes up
\* next has type ASK_USER (so that no CODE step runs before the user's reply
\* is appended to user_feedback)
C17_ForcedAskUser ==
    [][(pc = "replan" /\ FailureResult(step[1]) /\ pc' = "loop")
          => step'[1].type = "ASK_USER"]_vars

(***************************************************************************)
(* coordinator.py: exceptions inside the try of Coordinator.run            *)
(***************************************************************************)
\* str(e) of exceptions that reach the except branch
ErrorTexts ==
    {"429 Too Many Requests", "quota RESOURCE_EXHAUSTED", "connection reset",
     "code 14290", "resource_exhausted"}

\* the positions of Coordinator.run inside its try
InTry == {"perceive_query", "retrieve", "plan_initial", "approve_plan", "loop",
          "perceive_result", "replan"}

\* lines 32-322: a call made at the current position raises, and the except
\* branch takes over
RaiseInRun(errors) ==
    \E error_msg \in errors :
        /\ pc \in InTry
        /\ ExceptionHandler(mon, error_msg)
        /\ UNCHANGED <<memVars, otherVars, runVars, user_feedback, perception, step,
                       step_count, final_answer, session_file>>

FaultNext ==
    \/ Next
    \/ RaiseInRun(ErrorTexts)

SpecFaults == Init /\ [][FaultNext]_vars

\* the error text speaks of a rate limit
MentionsRateLimit(e) == Contains(e, "429") \/ Contains(e, "RESOURCE_EXHAUSTED")

\* C21: an exception raised inside Coordinator.run is not propagated: the run
\* ends, an error message and an answer from the "Error Handler" are emitted
\* and the answer returned; it is the high-traffic message iff the error text
\* contains "429" or "RESOURCE_EXHAUSTED", otherwise the unexpected-error
\* message with the original error text
C21_ExceptionsHandled ==
    mon.raised # None =>
        LET e == mon.raised[1]
            conclusion == IF MentionsRateLimit(e) THEN RateLimitText
                          ELSE "An unexpected error occurred: " \o e
        IN  /\ pc = "done"
            /\ mon.error_out
            /\ result = <<conclusion>>
            /\ mon.answers_out # <<>>
            /\ mon.answers_out[Len(mon.answers_out)] =
                  [answer |-> conclusion, source |-> "Error Handler"]
            /\ (result = <<RateLimitText>>) <=> MentionsRateLimit(e)

\* a run ended on a quota error raised after a step was executed
C21_Witness ==
    /\ mon.raised = <<"quota RESOURCE_EXHAUSTED">>
    /\ mon.entries > 0
    /\ result = <<RateLimitText>>

\* a run ended on an error that is no rate limit
C21_WitnessGeneric ==
    /\ mon.raised = <<"resource_exhausted">>
    /\ result = <<"An unexpected error occurred: resource_exhausted">>

(***************************************************************************)
(* Properties of the step gate                                             *)
(***************************************************************************)
\* the user has just answered f at the gate of the current step
AnswersAtGate(f) == mon'.entries = mon.entries + 1 /\ mon'.gate = <<f>>

\* no agent is called and nothing is written to memory in this step
NothingDone ==
    /\ mon'.call = mon.call /\ mon'.prev = mon.prev /\ mon'.site = mon.site
    /\ UNCHANGED <<step, conversation, faiss_index, metadata, last_save, session_file,
                   final_answer, perception, user_feedback, retrieval>>

\* C22: with require_step_approval on, the answer "stop" at a step's gate
\* (in any case, blanks around it) ends the run at once with "Execution
\* Aborted by User.": the gated step is not executed and no executor,
\* perception, decision or memory write happens with or after that answer
C22_StopAborts ==
    /\ [][(AnswersAtGate("stop") \/ AnswersAtGate("Stop ")) =>
             /\ hitl_config.require_step_approval
             /\ pc' = "done"
             /\ result' = <<AbortedText>>
             /\ NothingDone]_vars
    /\ [][result = <<AbortedText>> => runs' = runs + 1]_vars
    /\ [](result = <<AbortedText>> => pc = "done" /\ step[1].status = "pending")

\* the user stopped the run at the gate of its second step
C22_Witness ==
    /\ result = <<AbortedText>>
    /\ mon.gate = <<"Stop ">>
    /\ mon.entries = 2
    /\ pc = "done"

\* the loop is entered with step approval on, and the user answers at the gate
GateAnswered == hitl_config.require_step_approval /\ mon'.entries = mon.entries + 1

\* the step is passed to ExecutorAgent.run in this step of the loop (every
\* gate comes after a decision call)
PassedToExecutor == mon.call = "decision" /\ mon'.call = "executor"

\* C23: with require_step_approval on, a step is passed to the executor only
\* after the user gave the empty response at that step's gate; the response
\* "skip" sets the step's status to skipped with the result "Skipped by user"
\* and does not run the executor; no other response causes execution
C23_OnlyEmptyApproves ==
    [][GateAnswered =>
          /\ PassedToExecutor => mon'.gate = <<"">>
          /\ mon'.gate = <<"skip">> =>
                /\ ~PassedToExecutor
                /\ step'[1].status = "skipped"
                /\ step'[1].execution_result = "Skipped by user"]_vars

(***************************************************************************)
(* Properties of the plan approval gate                                    *)
(***************************************************************************)
\* the user has just answered f to the proposed plan
AnswersToPlan(f) == pc = "approve_plan" /\ mon'.plan_gate = <<f>>

\* the response is taken as feedback: appended, and one replan-mode decision
\* made, whose step is proposed next
TakenAsFeedback(f) ==
    /\ user_feedback' = Append(user_feedback, f)
    /\ mon'.plan_replans = mon.plan_replans + 1
    /\ mon'.call = "decision" /\ mon'.site = "approve_plan" /\ mon'.prev = mon.call
    /\ mon'.proposed = step'
    /\ pc' = "approve_plan"

\* the response approves the proposed step: no decision call, nothing appended
TakenAsApproval ==
    /\ pc' = "loop"
    /\ mon'.call = mon.call /\ mon'.plan_replans = mon.plan_replans
    /\ UNCHANGED <<step, user_feedback>>

\* the first step of a run with plan approval is passed to the loop's body
FirstStepTaken ==
    hitl_config.require_plan_approval /\ mon.entries = 0 /\ mon'.entries = 1

\* C24 as stated: the empty response approves; every non-empty response is
\* appended to user_feedback as it is and triggers one replan-mode decision
C24_EmptyApproves ==
    [][\A f \in PlanResponses :
          AnswersToPlan(f) => IF f = "" THEN TakenAsApproval ELSE TakenAsFeedback(f)]_vars

\* C24: with require_plan_approval on, no step is executed before the user
\* has approved the step proposed last, with a response that is empty or
\* blank, and the first step executed is that step; every other response is
\* appended to user_feedback as it is, in order, and triggers exactly one
\* replan-mode decision call
C24_PlanApproval ==
    /\ [][\A f \in PlanResponses :
             AnswersToPlan(f) =>
                IF f \in {"", " "} THEN TakenAsApproval ELSE TakenAsFeedback(f)]_vars
    /\ [][FirstStepTaken =>
             /\ mon.plan_gate \in {<<"">>, <<" ">>}
             /\ mon.proposed = step
             /\ pc = "loop"]_vars
    /\ [](hitl_config.require_plan_approval /\ pc = "approve_plan" => mon.entries = 0)

\* after two rounds of feedback the user approved the third proposal, which
\* is the step the loop starts with
C24_Witness ==
    /\ hitl_config.require_plan_approval
    /\ mon.plan_replans = 2
    /\ Len(user_feedback) = 2
    /\ mon.plan_gate = <<"">>
    /\ mon.proposed = step
    /\ pc = "loop"

\* ---------------------------------------------------------------------------
\* server.py: one websocket, its receive loop, its run and its client

MaxQueries == 2

MaxRequests == 2

MaxStray == 1

\* what a client types into a hitl_response
HitlValues == {"", "stop"}

Pending == <<[done |-> FALSE]>>

Resolved(m) == <<[done |-> TRUE, re |-> m.re, value |-> m.value]>>

Connection(c, r) == [server EXCEPT ![c] = r]

RECURSIVE OverAll(_, _)
\* the sum of a counter over a set of websockets
OverAll(cs, counter) ==
    IF cs = {} THEN 0
    ELSE LET c == CHOOSE x \in cs : TRUE
         IN  server[c][counter] + OverAll(cs \ {c}, counter)

Strays(c) == Cardinality({i \in 1..Len(server[c].dropped) : server[c].dropped[i].re = 0})

\* handle_message, type "query": a task that is not done is cancelled (its
\* input() leaves through the finally, input_future is None again), then a
\* task of coordinator.run is created
HandleQuery(c) ==
    LET s == server[c]
    IN  /\ OverAll(Connections, "started") < MaxQueries
        /\ server' = Connection(c, [s EXCEPT
               !.task = "running", !.at = "busy", !.input_future = None,
               !.started = @ + 1,
               !.abandoned = IF s.task = "running" THEN @ + 1 ELSE @])
        /\ UNCHANGED <<memVars, coordVars, promoting, similar, execution, planVars,
                       latest_perception, last_call>>

\* WebSocketIOHandler.input, up to the await of output: the hitl_request is on
\* the websocket, input_future is not yet a future
InputSends(c) ==
    LET s == server[c]
    IN  /\ s.task = "running"
        /\ s.at = "busy"
        /\ OverAll(Connections, "asked") < MaxRequests
        /\ server' = Connection(c, [s EXCEPT !.at = "sending", !.asked = @ + 1])
        /\ UNCHANGED <<memVars, coordVars, promoting, similar, execution, planVars,
                       latest_perception, last_call>>

\* WebSocketIOHandler.input, after the await of output: create_future
InputRegisters(c) ==
    LET s == server[c]
    IN  /\ s.task = "running"
        /\ s.at = "sending"
        /\ server' = Connection(c, [s EXCEPT !.at = "waiting", !.input_future = Pending])
        /\ UNCHANGED <<memVars, coordVars, promoting, similar, execution, planVars,
                       latest_perception, last_call>>

\* the client answers the oldest hitl_request it has not answered
ClientResponds(c, values) ==
    LET s == server[c]
    IN  /\ s.answered < s.asked
        /\ \E v \in values :
              server' = Connection(c, [s EXCEPT
                  !.answered = @ + 1,
                  !.inbox = Append(@, [re |-> s.answered + 1, run |-> s.started,
                                       value |-> v])])
        /\ UNCHANGED <<memVars, coordVars, promoting, similar, execution, planVars,
                       latest_perception, last_call>>

\* the client sends a hitl_response nobody asked for
ClientVolunteers(c, values) ==
    LET s == server[c]
    IN  /\ s.answered = s.asked
        /\ \A other \in Connections : Strays(other) < MaxStray /\ server[other].inbox = <<>>
        /\ \E v \in values :
              server' = Connection(c, [s EXCEPT
                  !.inbox = Append(@, [re |-> 0, run |-> s.started, value |-> v])])
        /\ UNCHANGED <<memVars, coordVars, promoting, similar, execution, planVars,
                       latest_perception, last_call>>

\* WebSocketIOHandler.resolve_input
resolve_input(s, m) ==
    IF s.input_future # None /\ ~s.input_future[1].done
    THEN [s EXCEPT !.input_future = Resolved(m)]
    ELSE [s EXCEPT !.dropped = Append(@, [re |-> m.re, run |-> m.run,
                                          during |-> s.started, at |-> s.at])]

\* handle_message, type "hitl_response": the receive loop hands the response
\* to the handler of its own websocket
HandleResponse(c) ==
    LET s == server[c]
    IN  /\ s.inbox # <<>>
        /\ server' = Connection(c, resolve_input([s EXCEPT !.inbox = Tail(@)],
                                                 Head(s.inbox)))
        /\ UNCHANGED <<memVars, coordVars, promoting, similar, execution, planVars,
                       latest_perception, last_call>>

\* WebSocketIOHandler.input: the future is done, input returns its result and
\* the finally sets input_future to None
InputReturns(c) ==
    LET s == server[c]
    IN  /\ s.task = "running"
        /\ s.at = "waiting"
        /\ s.input_future # None
        /\ s.input_future[1].done
        /\ server' = Connection(c, [s EXCEPT
               !.at = "busy", !.input_future = None,
               !.returned = Append(@, [request |-> s.asked,
                                       re |-> s.input_future[1].re,
                                       value |-> s.input_future[1].value])])
        /\ UNCHANGED <<memVars, coordVars, promoting, similar, execution, planVars,
                       latest_perception, last_call>>

\* coordinator.run returns: the task is done
TaskDone(c) ==
    LET s == server[c]
    IN  /\ s.task = "running"
        /\ s.at = "busy"
        /\ server' = Connection(c, [s EXCEPT !.task = "done", !.at = "none"])
        /\ UNCHANGED <<memVars, coordVars, promoting, similar, execution, planVars,
                       latest_perception, last_call>>

ServerNext ==
    \E c \in Connections :
        \/ HandleQuery(c)
        \/ InputSends(c)
        \/ InputRegisters(c)
        \/ ClientResponds(c, HitlValues)
        \/ ClientVolunteers(c, HitlValues)
        \/ HandleResponse(c)
        \/ InputReturns(c)
        \/ TaskDone(c)

SpecServer == Init /\ [][ServerNext]_vars

Dropped(c) == {server[c].dropped[i] : i \in 1..Len(server[c].dropped)}

\* C25: a hitl_response that answers a hitl_request of the run in progress is
\* never dropped: whatever the order of the send of the request, the
\* registration of the future and the arrival of the response, only a response
\* nobody asked for, or one for a run already replaced, is dropped
C25_NoResponseLost ==
    \A c \in Connections : \A d \in Dropped(c) : d.re = 0 \/ d.run # d.during

\* C26: while the task of a websocket is running, a query message on that
\* websocket starts no run and abandons none
C26_OneQueryAtATime ==
    [][\A c \in Connections :
          server[c].task = "running"
              => /\ server'[c].started = server[c].started
                 /\ server'[c].abandoned = server[c].abandoned]_vars

\* ---------------------------------------------------------------------------
\* the plan versions of a run

MaxStepIndex == 1

MaxPlanned == 3

\* what the decision LLM answers when it is free in its step_index
IndexedOutputs ==
    {[json_ok |-> FALSE, step_index |-> 0, type |-> "NOP", code |-> FALSE,
      conclusion |-> ""]}
    \cup {[json_ok |-> TRUE, step_index |-> i, type |-> t, code |-> t = "CODE",
           conclusion |-> IF t = "CONCLUDE" THEN "The flat costs 5 cr." ELSE ""] :
            i \in 0..MaxStepIndex, t \in PlanStepTypes}

RECURSIVE Planned(_)
\* the number of steps in a list of plan versions
Planned(versions) ==
    IF versions = <<>> THEN 0 ELSE Len(Head(versions)) + Planned(Tail(versions))

\* the answers of the LLM, the unparsable ones only once the plan is MaxPlanned long
PlanDecisions ==
    IF Planned(plan_versions) < MaxPlanned THEN IndexedOutputs
    ELSE {o \in IndexedOutputs : ~o.json_ok}

\* one run, with and without plan approval, and an LLM free in its step_index
PlansNext ==
    \/ StartRun({"cost of flat"},
                {h \in HitlConfigs : ~h.require_step_approval}, runs = 0)
    \/ PerceiveQuery({o \in PerceptionOutputs : o.confidence = 50})
    \/ RetrieveContext({<<TRUE, TRUE, TRUE>>})
    \/ PlanInitial(PlanDecisions)
    \/ ApprovePlan({"", "use the web"}, PlanDecisions, MaxFeedback)
    \/ ExecuteStep({r \in ToolResults : r.status = "success"}, PlanDecisions, Replies)
    \/ PerceiveResult({o \in PerceptionOutputs : o.confidence = 50})
    \/ Replan(PlanDecisions)
    \/ MaxStepsReached

SpecPlans == Init /\ [][PlansNext]_vars

Indexes(version) == {version[i].step_index : i \in 1..Len(version)}

\* C27: in every plan version the steps have pairwise distinct step_index
C27_UniqueStepIndex ==
    \A v \in 1..Len(plan_versions) :
        Cardinality(Indexes(plan_versions[v])) = Len(plan_versions[v])

\* a step in which DecisionAgent.run was called in initial mode
InitialDecision == pc = "plan_initial" /\ pc' # "plan_initial"

\* a step in which DecisionAgent.run was called in replan mode
ReplanDecision ==
    \/ pc = "replan" /\ pc' = "loop"
    \/ pc = "approve_plan" /\ pc' = "approve_plan"

\* the step the call returned is not the fallback of the except branch
ReturnedParsed ==
    step' # None /\ step'[1].execution_result \notin {JsonErrorText, TypeErrorText}

LastOf(seq) == seq[Len(seq)]

\* C30: after a decision that parses, in initial mode there is one plan
\* version more, it is the returned step alone and current_plan_index is its
\* index; in replan mode the number of versions is the same and the returned
\* step is the new last element of the current version, also when the run has
\* no version because the initial decision failed
C30_PlanVersions ==
    [][/\ InitialDecision /\ ReturnedParsed
            => /\ Len(plan_versions') = Len(plan_versions) + 1
               /\ LastOf(plan_versions') = <<AsPlanned(step'[1])>>
               /\ current_plan_index' = Len(plan_versions') - 1
       /\ ReplanDecision /\ ReturnedParsed
            => /\ Len(plan_versions') = Len(plan_versions)
               /\ current_plan_index' + 1 \in 1..Len(plan_versions')
               /\ LET now == plan_versions'[current_plan_index' + 1]
                  IN  /\ Len(now) = Len(plan_versions[current_plan_index + 1]) + 1
                      /\ LastOf(now) = AsPlanned(step'[1])]_vars

\* ---------------------------------------------------------------------------
\* the shape of a step

\* a CONCLUDE step has a conclusion and no code, a CODE step code and no
\* conclusion
ShapeRule(s) ==
    /\ s.type = "CONCLUDE" => s.conclusion # "" /\ ~s.code
    /\ s.type = "CODE" => s.code /\ s.conclusion = ""

\* C28: the step the coordinator holds, from the decision that made it to the
\* end of the run that executed it or returned its conclusion, satisfies the
\* shape rule
C28_ShapeRule == step # None => ShapeRule(step[1])

\* ---------------------------------------------------------------------------
\* steps of type ASK_USER

\* the step in hand is what DecisionAgent.run made of an answer whose
\* next_step has a type PlanStep does not declare, ASK_USER here
DecidedAskUser == step # None /\ step[1].execution_result = TypeErrorText

\* the loop is entered with the step in hand and no gate before it
LoopEntered ==
    /\ pc = "loop"
    /\ ~hitl_config.require_step_approval
    /\ mon'.entries = mon.entries + 1

\* C29: when the loop is entered with a step the decision agent decided as
\* ASK_USER, the user is asked, the reply becomes the last element of
\* user_feedback and the next agent call is the decision, in replan mode,
\* with no executor or perception call in between; user_feedback only grows
\* at its end
C29_AskUserHandled ==
    [][/\ DecidedAskUser /\ LoopEntered
            => /\ \E reply \in Replies : user_feedback' = Append(user_feedback, reply)
               /\ mon'.call = "decision"
               /\ mon'.prev = mon.call
               /\ pc' = "loop"
       /\ runs' = runs
            => /\ Len(user_feedback') >= Len(user_feedback)
               /\ SubSeq(user_feedback', 1, Len(user_feedback)) = user_feedback]_vars

\* ---------------------------------------------------------------------------
\* the status of a step

\* the loop takes the step in hand through the gate's skip or the executor
\* (the stop of the gate ends the run before either)
WentThroughExecuteStep ==
    /\ pc = "loop"
    /\ step # None
    /\ mon'.entries = mon.entries + 1
    /\ result' # <<AbortedText>>
    /\ step' # None

SkippedAtGate ==
    /\ mon'.gate # None
    /\ Strip(Lower(Chars(mon'.gate[1]))) = Chars("skip")

\* the status the step is left with, by its type and by what the executor
\* reported
LeftAs(before, after) ==
    /\ after.status \in {"completed", "failed", "skipped"}
    /\ SkippedAtGate => after.status = "skipped"
    /\ ~SkippedAtGate /\ before.type = "CODE"
           => \/ after.status = "completed"
                   /\ after.execution_result = "tool output"
              \/ after.status = "failed"
                   /\ after.execution_result = "TOOL_FAILURE: Error 500 upstream"
    /\ ~SkippedAtGate /\ before.type = "CONCLUDE"
           => after.status = "completed" /\ after.execution_result = before.conclusion
    /\ ~SkippedAtGate /\ before.type = "NOP" => after.status = "skipped"

\* C31: a step is pending when the loop takes it, it leaves the loop's
\* execution completed, failed or skipped as its type and the executor's
\* report say, and a status other than pending is never changed: the only
\* other change of the step in hand is a new pending step from a decision
C31_StatusOnce ==
    [][/\ WentThroughExecuteStep
            => step[1].status = "pending" /\ LeftAs(step[1], step'[1])
       /\ step # None /\ step' # None /\ ~WentThroughExecuteStep
            => step'[1].status \in {step[1].status, "pending"}]_vars

\* ---------------------------------------------------------------------------
\* which steps run code

ToolTexts == {r.interpreted : r \in ToolResults}

\* C32: run_user_code is called only by the execution of a CODE step that has
\* code; the execution of any other step calls it not and leaves no tool
\* result in the step, whether or not the step carries a code field
C32_CodeOnly ==
    /\ [](mon.ran_user_code
            => /\ mon.call = "executor"
               /\ step # None
               /\ step[1].type = "CODE"
               /\ step[1].code)
    /\ [][WentThroughExecuteStep /\ ~(step[1].type = "CODE" /\ step[1].code)
            => /\ ~mon'.ran_user_code
               /\ step'[1].execution_result \notin ToolTexts]_vars

\* C32 witness: a CONCLUDE step that carried code has been through the
\* executor and no code was run
C32_Witness ==
    /\ mon.call = "executor"
    /\ step # None
    /\ step[1].type = "CONCLUDE"
    /\ step[1].code
    /\ step[1].status = "completed"
    /\ ~mon.ran_user_code

\* ---------------------------------------------------------------------------
\* the perception the decision agent reads

\* a step of the loop in which ExecutorAgent.run was called
ExecutorCalled == mon'.entries = mon.entries + 1 /\ mon'.call = "executor"

\* C38: when DecisionAgent.run is called, blackboard.latest_perception is the
\* snapshot the last PerceptionAgent.run of the run returned, the defensive
\* snapshot included, and a call of ExecutorAgent.run leaves it as it was
C38_LatestPerception ==
    [][/\ InitialDecision \/ ReplanDecision => latest_perception = perception
       /\ ExecutorCalled => latest_perception' = latest_perception]_vars

\* ---------------------------------------------------------------------------
\* the reasoning agents on their own: PerceptionAgent.run and
\* DecisionAgent.run over every way the LLM call can end

\* the values of PerceptionSnapshot.snapshot_type, which are the ones
\* Coordinator.run passes
SnapshotTypes == {"user_query", "step_result"}

\* how the LLM call ended: generate_with_retry raised, the text is no JSON,
\* the JSON does not make the model object, or it does
Failures == {"llm", "json", "schema", "none"}

\* str(e) of what generate_with_retry raised
LlmErrorText == "503 UNAVAILABLE"

\* what the perception LLM answers
PerceptionAnswers ==
    {[failure |-> f, snapshot_type |-> k, original_goal_achieved |-> g,
      confidence |-> c, solution_summary |-> "Purple"] :
        f \in Failures, k \in SnapshotTypes \cup {"summary"}, g \in BOOLEAN,
        c \in {95}}

\* the variant without line 73: the snapshot_type of the answer is kept
PerceptionAgentRun_no_override(answer, snapshot_type) ==
    IF answer.failure = "none" /\ answer.snapshot_type \in SnapshotTypes
      THEN [raised |-> FALSE, stored |-> TRUE,
            snapshot |-> [snapshot_type |-> answer.snapshot_type,
                          original_goal_achieved |-> answer.original_goal_achieved,
                          confidence |-> answer.confidence,
                          solution_summary |-> answer.solution_summary]]
    ELSE IF snapshot_type \in SnapshotTypes
      THEN [raised |-> FALSE, stored |-> FALSE,
            snapshot |-> [snapshot_type |-> snapshot_type,
                          original_goal_achieved |-> FALSE, confidence |-> 0,
                          solution_summary |-> ""]]
    ELSE [raised |-> TRUE, stored |-> FALSE]

\* PerceptionAgent.run, lines 62-87: the try around the LLM call, json.loads,
\* the overwrite of snapshot_type and PerceptionSnapshot(**data); the except
\* branch with the defensive snapshot, whose constructor is outside any try
PerceptionAgentRun(answer, snapshot_type) ==
    LET data == [answer EXCEPT !.snapshot_type = snapshot_type]
    IN  IF answer.failure = "none" /\ data.snapshot_type \in SnapshotTypes
          THEN [raised |-> FALSE, stored |-> TRUE,
                snapshot |-> [snapshot_type |-> data.snapshot_type,
                              original_goal_achieved |-> data.original_goal_achieved,
                              confidence |-> data.confidence,
                              solution_summary |-> data.solution_summary]]
        ELSE IF snapshot_type \in SnapshotTypes
          THEN [raised |-> FALSE, stored |-> FALSE,
                snapshot |-> [snapshot_type |-> snapshot_type,
                              original_goal_achieved |-> FALSE, confidence |-> 0,
                              solution_summary |-> ""]]
        ELSE [raised |-> TRUE, stored |-> FALSE]

\* what the decision LLM answers
DecisionAnswers ==
    {[failure |-> f, json_ok |-> f \notin {"llm", "json"}, step_index |-> 0,
      type |-> IF f = "schema" THEN "ASK_USER" ELSE t, code |-> t = "CODE",
      conclusion |-> IF t = "CONCLUDE" THEN "The flat costs 5 cr." ELSE ""] :
        f \in Failures, t \in PlanStepTypes}

\* DecisionAgent.run, lines 119-152: the step returned; str(e) is the text of
\* what generate_with_retry raised when the LLM call failed
DecisionAgentRun(answer) ==
    IF answer.failure = "llm"
      THEN [DecisionRun(answer) EXCEPT !.execution_result = LlmErrorText]
      ELSE DecisionRun(answer)

\* the text a failed decision carries
DecisionErrorText(answer) ==
    CASE answer.failure = "llm" -> LlmErrorText
      [] answer.failure = "json" -> JsonErrorText
      [] OTHER -> TypeErrorText

\* one call of PerceptionAgent.run on the blackboard
PerceptionCall(kinds, answers) ==
    \E snapshot_type \in kinds, answer \in answers :
        LET r == PerceptionAgentRun(answer, snapshot_type)
        IN  /\ last_call' = [called |-> TRUE, agent |-> "perception",
                             snapshot_type |-> snapshot_type, answer |-> answer,
                             raised |-> r.raised, plans_before |-> plan_versions]
            /\ perception' = IF r.raised THEN perception ELSE <<r.snapshot>>
            /\ latest_perception' = IF r.stored THEN <<r.snapshot>> ELSE latest_perception
            /\ UNCHANGED <<memVars, pc, runVars, user_feedback, step, step_count,
                           final_answer, session_file, result, mon, promoting, similar,
                           execution, server, planVars>>

\* one call of DecisionAgent.run on the blackboard
DecisionCall(modes, answers) ==
    \E mode \in modes, answer \in answers :
        /\ Planned(plan_versions) < MaxPlanned \/ ~Parses(answer)
        /\ last_call' = [called |-> TRUE, agent |-> "decision", mode |-> mode,
                         answer |-> answer, raised |-> FALSE,
                         plans_before |-> plan_versions]
        /\ step' = <<DecisionAgentRun(answer)>>
        /\ Decide(mode, answer)
        /\ UNCHANGED <<memVars, pc, runVars, user_feedback, perception, step_count,
                       final_answer, session_file, result, mon, promoting, similar,
                       execution, server, latest_perception>>

AgentsNext ==
    \/ PerceptionCall(SnapshotTypes, PerceptionAnswers)
    \/ DecisionCall({"initial", "replan"}, DecisionAnswers)

SpecAgents == Init /\ [][AgentsNext]_vars

C33_WitnessDecision ==
    /\ last_call.called
    /\ last_call.agent = "decision"
    /\ last_call.answer.failure = "schema"
    /\ plan_versions # <<>>

\* ---------------------------------------------------------------------------
\* utils/retry_utils.py: generate_with_retry over the outcomes of its calls of
\* client.models.generate_content

retries == 5

initial_delay == 5

\* random.uniform(0, 2), in whole seconds
Jitters == {0, 1, 2}

\* how one call of generate_content ends: a response, or an exception with
\* this text
ModelOutcomes ==
    {[ok |-> TRUE, text |-> "response"],
     [ok |-> FALSE, text |-> "429 Too Many Requests"],
     [ok |-> FALSE, text |-> "503 UNAVAILABLE"],
     [ok |-> FALSE, text |-> "connection reset"]}

\* line 23: the errors that are retried
Retryable(error_str) ==
    \/ Contains(error_str, "429")
    \/ Contains(error_str, "RESOURCE_EXHAUSTED")
    \/ Contains(error_str, "503")
    \/ Contains(error_str, "500")

\* lines 14-35: the loop from attempt on; how it ends, with what, after how
\* many calls of the model and which sleeps
RECURSIVE generate_with_retry_loop(_, _, _, _, _, _)
generate_with_retry_loop(attempt, limit, delay, outcomes, jitters, sleeps) ==
    IF attempt >= limit
      THEN [ctl |-> "return", value |-> "None", calls |-> attempt, sleeps |-> sleeps]
    ELSE
      LET o == outcomes[attempt + 1]
      IN  IF o.ok
            THEN [ctl |-> "return", value |-> o.text, calls |-> attempt + 1,
                  sleeps |-> sleeps]
          ELSE IF Retryable(o.text) /\ attempt # limit - 1
            THEN generate_with_retry_loop(attempt + 1, limit, delay * 2, outcomes, jitters,
                                          Append(sleeps, delay + jitters[attempt + 1]))
          ELSE [ctl |-> "raise", value |-> o.text, calls |-> attempt + 1,
                sleeps |-> sleeps]

\* the variant with one attempt more
generate_with_retry_once_more(outcomes, jitters) ==
    generate_with_retry_loop(0, retries + 1, initial_delay, outcomes, jitters, <<>>)

\* generate_with_retry with its default retries and initial_delay
generate_with_retry(outcomes, jitters) ==
    generate_with_retry_loop(0, retries, initial_delay, outcomes, jitters, <<>>)

\* the outcomes of the calls a request can make, one more than it may make
OutcomeRuns == [1..(retries + 1) -> ModelOutcomes]

\* the jitter is the same at every sleep of a request, or it alternates
JitterRuns ==
    {[i \in 1..(retries + 1) |-> j] : j \in Jitters}
    \cup {[i \in 1..(retries + 1) |-> IF i % 2 = 1 THEN 2 ELSE 0]}

\* one request
RetryCall(runs_of_outcomes, runs_of_jitters) ==
    \E outcomes \in runs_of_outcomes, jitters \in runs_of_jitters :
        /\ ~last_call.called
        /\ last_call' = [called |-> TRUE, agent |-> "generate_with_retry",
                         outcomes |-> outcomes, jitters |-> jitters,
                         returned |-> generate_with_retry(outcomes, jitters)]
        /\ UNCHANGED <<memVars, coordVars, promoting, similar, execution, server,
                       planVars, latest_perception>>

RetryNext == RetryCall(OutcomeRuns, JitterRuns)

SpecRetry == Init /\ [][RetryNext]_vars

\* the first call that is not a failure to be retried, the fifth at the latest
LastAttempt(outcomes) ==
    LET final == {i \in 1..retries :
                     outcomes[i].ok \/ ~Retryable(outcomes[i].text) \/ i = retries}
    IN  CHOOSE i \in final : \A k \in final : i <= k

RECURSIVE Doubled(_)
\* the delay before retry number i: 5, 10, 20, 40
Doubled(i) == IF i = 1 THEN 5 ELSE 2 * Doubled(i - 1)

\* C34: a request calls the model at most 5 times and stops at the first call
\* that succeeds (it returns that response), that fails with another error
\* than 429, RESOURCE_EXHAUSTED, 500 or 503 (it raises that error at once), or
\* that is the fifth (it raises its error); before retry i it sleeps
\* 5, 10, 20, 40 seconds plus a jitter of at most 2; it never returns nothing
C34_BoundedRetry ==
    last_call.called /\ last_call.agent = "generate_with_retry"
        => LET r == last_call.returned
               n == LastAttempt(last_call.outcomes)
           IN  /\ r.calls = n
               /\ r.calls <= 5
               /\ r.ctl = IF last_call.outcomes[n].ok THEN "return" ELSE "raise"
               /\ r.value = last_call.outcomes[n].text
               /\ r.value # "None"
               /\ Len(r.sleeps) = n - 1
               /\ \A i \in 1..Len(r.sleeps) :
                      r.sleeps[i] \in Doubled(i)..(Doubled(i) + 2)

\* C34 witness: four retried failures, each after a longer sleep, and a fifth
\* failure that is raised
C34_Witness ==
    /\ last_call.called
    /\ last_call.agent = "generate_with_retry"
    /\ last_call.returned.ctl = "raise"
    /\ last_call.returned.calls = 5
    /\ last_call.returned.value = "503 UNAVAILABLE"
    /\ last_call.returned.sleeps = <<7, 10, 22, 40>>

(***************************************************************************)
(* utils/session_memory.py: the chain of context references                *)
(***************************************************************************)
MaxChainTurns == 3

\* the context_from_turn a caller may pass: nothing, or any integer
ContextRefs == {None} \cup {<<i>> : i \in (0 - 1)..MaxChainTurns}

\* add_turn with a context_from_turn: the key is set only when one is given
add_turn_from(conv, query, answer, confidence, source, validated, context_from_turn) ==
    LET added == add_turn(conv, query, answer, confidence, source, validated)
        turn == added[Len(added)]
    IN  IF context_from_turn # None
          THEN Append(conv, turn @@ [context_from_turn |-> context_from_turn[1]])
        ELSE added

\* turn.get("context_from_turn")
get_context_from_turn(turn) ==
    IF "context_from_turn" \in DOMAIN turn THEN <<turn.context_from_turn>> ELSE None

\* the while loop of get_context_chain; it has gone round more often than
\* there are turns exactly when it follows a cycle, and then it never ends
RECURSIVE get_context_chain_loop(_, _, _)
get_context_chain_loop(conv, chain, current_id) ==
    IF Len(chain) > Len(conv)
      THEN [returns |-> FALSE, chain |-> chain]
    ELSE IF current_id # None /\ 0 <= current_id[1] /\ current_id[1] < Len(conv)
      THEN LET turn == conv[current_id[1] + 1]
           IN  get_context_chain_loop(conv, <<turn>> \o chain, get_context_from_turn(turn))
    ELSE [returns |-> TRUE, chain |-> chain]

get_context_chain(conv, turn_id) == get_context_chain_loop(conv, <<>>, <<turn_id>>)

\* SessionMemoryManager.add_turn, called with a context_from_turn
AddTurnFrom(refs) ==
    \E context_from_turn \in refs :
        /\ ~last_call.called
        /\ Len(conversation) < MaxChainTurns
        /\ conversation' = add_turn_from(conversation, "cost of flat", "The cost is 5 Cr",
                                         95, "documents", TRUE, context_from_turn)
        /\ UNCHANGED <<faiss_index, metadata, documents, clock, context_data, retrieval,
                       last_save, coordVars, otherVars>>

\* SessionMemoryManager.get_context_chain
ContextChainCall(turn_ids) ==
    \E turn_id \in turn_ids :
        /\ ~last_call.called
        /\ last_call' = [called |-> TRUE, agent |-> "get_context_chain",
                         turn_id |-> turn_id,
                         returned |-> get_context_chain(conversation, turn_id)]
        /\ UNCHANGED <<memVars, coordVars, promoting, similar, execution, server,
                       planVars, latest_perception>>

ChainNext ==
    \/ AddTurnFrom(ContextRefs)
    \/ ContextChainCall((0 - 1)..MaxChainTurns)

SpecChain == Init /\ [][ChainNext]_vars

\* C35: get_context_chain returns, for a turn of the session with that turn
\* last in the chain, and the turn ids of the chain are strictly increasing
C35_ContextChain ==
    last_call.called /\ last_call.agent = "get_context_chain"
        => LET chain == last_call.returned.chain
           IN  /\ last_call.returned.returns
               /\ \A i \in 1..(Len(chain) - 1) : chain[i].turn_id < chain[i + 1].turn_id
               /\ last_call.turn_id \in 0..(Len(conversation) - 1)
                      => /\ chain # <<>>
                         /\ chain[Len(chain)].turn_id = last_call.turn_id

(***************************************************************************)
(* memory_agent.py: vectors and metadata records of Tier 2                 *)
(***************************************************************************)
\* the call of save_successful_answer that was just made appended an entry
SavedWithoutFault ==
    /\ last_save.called
    /\ last_save.fault = "none"
    /\ should_index_to_memory(last_save.confidence, last_save.source, last_save.answer,
                              last_save.goal_achieved)

\* C36: the index holds as many vectors as there are metadata records, also
\* after a promotion that failed part-way, and a successful promotion adds
\* exactly one of each
C36_VectorPerRecord ==
    /\ Len(faiss_index) = Len(metadata)
    /\ SavedWithoutFault => /\ Len(faiss_index) = Len(last_save.before.index) + 1
                            /\ Len(metadata) = Len(last_save.before.metadata) + 1

\* ---------------------------------------------------------------------------
\* the end of a run on a CONCLUDE step

\* the run has returned the conclusion of the CONCLUDE step in hand
ReturnedConclusion ==
    /\ ReturnedAnswer
    /\ step # None
    /\ step[1].type = "CONCLUDE"
    /\ result = <<step[1].conclusion>>

\* C37: when a run has returned the conclusion of a CONCLUDE step,
\* final_answer is that conclusion and the turn of the query with that
\* conclusion is the last of session memory and is in the session file
C37_ConcludeSequence ==
    ReturnedConclusion =>
        /\ final_answer = Opt(step[1].conclusion)
        /\ conversation # <<>>
        /\ conversation[Len(conversation)].query = original_query
        /\ conversation[Len(conversation)].answer = step[1].conclusion
        /\ session_file = <<conversation>>

\* ---------------------------------------------------------------------------
\* a step skipped at the gate

\* C40: the step the user skips at the step gate gives no answer: no answer
\* output, no turn for session memory, no write of the session file, and the
\* run does not end on it
C40_SkippedNeverAnswers ==
    [][(pc = "loop" /\ mon'.entries = mon.entries + 1 /\ SkippedAtGate)
          => /\ mon'.answers_out = mon.answers_out
             /\ mon'.turn_args = mon.turn_args
             /\ conversation' = conversation
             /\ session_file' = session_file
             /\ result' = result
             /\ pc' # "done"]_vars

\* ---------------------------------------------------------------------------
\* answers of runs served from a memory tier

\* the retrieval of this run took its context from Tier 1 or Tier 2
ServedFromMemory ==
    /\ "source" \in DOMAIN context_data
    /\ context_data.source \in {"session", "memory"}

\* C39: a run whose context came from Tier 1 or Tier 2 leaves Tier 2 as it
\* was at its start: no entry is added for its answer
C39_NoSelfRenewal == ServedFromMemory => Tier2 = mon.tier2_start

====
